---- MODULE Spec2Model ----
(***************************************************************************)
(* Model of the AI-response recovery and normalization pipeline of the     *)
(* test-case generation backend (src/backend/index.js) and of the          *)
(* GeneratedSet store it writes (src/unnamed/part_000).                    *)
(*                                                                         *)
(* JavaScript values are records [ty, s, n, a, f]:                         *)
(*   ty  the type tag: undef, null, bool, num, inf, str, arr, obj          *)
(*   s   the characters of a string                                        *)
(*   n   a number in tenths (fixed point: 7 stands for 0.7), or 0/1 for a  *)
(*       boolean                                                           *)
(*   a   the elements of an array                                          *)
(*   f   the properties of an object, for the names the code reads         *)
(* "inf" is the non-finite number JSON.parse gives for a literal such as   *)
(* 1e999.                                                                  *)
(***************************************************************************)
EXTENDS Integers, Sequences, FiniteSets, TLC

(***************************************************************************)
(* Bounds of the model.                                                    *)
(***************************************************************************)
MaxEdits == 1         \* fields of a base value that a normalizer input overrides
NonceChoices == 2     \* distinct values of a synthesized tc_id
MaxRequests == 2      \* requests the server accepts in a run
MaxElems == 2         \* elements of a JSON array text given to the extractor

(***************************************************************************)
(* JavaScript values.                                                      *)
(***************************************************************************)
Fields ==
  {"tc_id", "id", "req_id", "jira_id", "title", "preconditions", "steps",
   "expected", "automatable", "suggested_tool", "confidence", "compliance"}

Undef == [ty |-> "undef", s |-> "", n |-> 0, a |-> <<>>, f |-> <<>>]
Null == [ty |-> "null", s |-> "", n |-> 0, a |-> <<>>, f |-> <<>>]
Bool(b) == [ty |-> "bool", s |-> "", n |-> IF b THEN 1 ELSE 0, a |-> <<>>, f |-> <<>>]
Num(k) == [ty |-> "num", s |-> "", n |-> k, a |-> <<>>, f |-> <<>>]
Inf == [ty |-> "inf", s |-> "", n |-> 0, a |-> <<>>, f |-> <<>>]
Str(x) == [ty |-> "str", s |-> x, n |-> 0, a |-> <<>>, f |-> <<>>]
Arr(xs) == [ty |-> "arr", s |-> "", n |-> 0, a |-> xs, f |-> <<>>]

\* An object with none of the properties the code reads.
NoProps == [k \in Fields |-> Undef]

ObjOf(f) == [ty |-> "obj", s |-> "", n |-> 0, a |-> <<>>, f |-> f]

\* ToBoolean: what x || y and if (x) test.
Truthy(v) ==
  CASE v.ty = "undef" -> FALSE
    [] v.ty = "null" -> FALSE
    [] v.ty = "bool" -> v.n = 1
    [] v.ty = "num" -> v.n # 0
    [] v.ty = "str" -> v.s # ""
    [] OTHER -> TRUE

\* Number::toString of a number held in tenths.
NumToString(k) ==
  LET m == IF k < 0 THEN -k ELSE k
      whole == ToString(m \div 10)
      frac == IF m % 10 = 0 THEN "" ELSE "." \o ToString(m % 10)
  IN (IF k < 0 THEN "-" ELSE "") \o whole \o frac

\* ToString of a value that is not an array.
ScalarToStr(v) ==
  CASE v.ty = "undef" -> "undefined"
    [] v.ty = "null" -> "null"
    [] v.ty = "bool" -> IF v.n = 1 THEN "true" ELSE "false"
    [] v.ty = "num" -> NumToString(v.n)
    [] v.ty = "inf" -> "Infinity"
    [] v.ty = "str" -> v.s
    [] OTHER -> "[object Object]"

RECURSIVE JoinFrom(_, _, _)
\* Array.prototype.join: null and undefined elements give the empty string.
JoinFrom(xs, i, sep) ==
  IF i > Len(xs) THEN ""
  ELSE LET e == xs[i]
           piece == IF e.ty \in {"undef", "null"} THEN ""
                    ELSE IF e.ty = "arr" THEN JoinFrom(e.a, 1, ",")
                    ELSE ScalarToStr(e)
       IN piece \o (IF i < Len(xs) THEN sep \o JoinFrom(xs, i + 1, sep) ELSE "")

Join(xs, sep) == JoinFrom(xs, 1, sep)

\* String(v), also what a template literal inserts.
ToStr(v) == IF v.ty = "arr" THEN Join(v.a, ",") ELSE ScalarToStr(v)

\* A sequence given as a function on 1..n, as a tuple.
Tuple(xs) == <<>> \o xs

\* xs.map(String)
MapString(xs) == Tuple([i \in 1..Len(xs) |-> Str(ToStr(xs[i]))])

(***************************************************************************)
(* parseFloat.  The result is [fin, n]: fin is Number.isFinite of the      *)
(* result, n its value in tenths.  A string parses to the number whose     *)
(* decimal spelling is its longest numeric prefix.                         *)
(***************************************************************************)
NumRange == -30..30

\* Strings of the model that start with a number and go on with other text.
NumericPrefix == [x \in {"0.7abc", "2 cases"} |-> IF x = "0.7abc" THEN 7 ELSE 20]

NaN == [fin |-> FALSE, n |-> 0]

\* The decimal spellings of the numbers of the model.
Spellings == {NumToString(k) : k \in NumRange}

ParseFloatStr(x) ==
  IF x \in Spellings
  THEN [fin |-> TRUE, n |-> CHOOSE k \in NumRange : NumToString(k) = x]
  ELSE IF x \in DOMAIN NumericPrefix
  THEN [fin |-> TRUE, n |-> NumericPrefix[x]]
  ELSE NaN

ParseFloat(v) ==
  CASE v.ty = "num" -> [fin |-> TRUE, n |-> v.n]
    [] v.ty = "str" -> ParseFloatStr(v.s)
    [] v.ty = "arr" -> ParseFloatStr(ToStr(v))
    [] OTHER -> NaN

Min(x, y) == IF x < y THEN x ELSE y
Max(x, y) == IF x > y THEN x ELSE y

\* A confidence stored as it was parsed.
Unclamped(c) == c

\* Math.max(0, Math.min(1, c)), in tenths.
Clamp01(c) == Max(0, Min(10, c))

(***************************************************************************)
(* The normalizer.                                                         *)
(***************************************************************************)
\* t.name: a property of null or undefined cannot be read; a primitive or an
\* array has none of the properties the code asks for.
Prop(t, name) == IF t.ty = "obj" THEN t.f[name] ELSE Undef

\* The tc_id built from Date.now() and Math.random().
SynthTcId(nonce) == "TC-1-" \o ToString(nonce)

Nonces == 0..(NonceChoices - 1)

IsArr(v) == v.ty = "arr"

StringArray(v) == IF IsArr(v) THEN Arr(MapString(v.a)) ELSE Arr(<<>>)

NormConfidence(v) ==
  LET c == ParseFloat(v) IN IF c.fin THEN Num(Clamp01(c.n)) ELSE Num(0)

NormTcId(t, nonce) ==
  IF Prop(t, "tc_id").ty = "str" THEN Prop(t, "tc_id")
  ELSE IF Truthy(Prop(t, "id")) THEN Prop(t, "id")
  ELSE Str(SynthTcId(nonce))

\* The record normalizeTestcaseForStore builds from a value whose
\* properties can be read.
NormRecord(t, reqId, nonce) ==
  LET tc_id == NormTcId(t, nonce)
  IN [tc_id |-> tc_id,
      id |-> Undef,
      req_id |-> IF Truthy(Prop(t, "req_id")) THEN Prop(t, "req_id") ELSE Str(reqId),
      jira_id |-> Prop(t, "jira_id"),
      title |-> IF Truthy(Prop(t, "title")) THEN Prop(t, "title")
                ELSE Str("Testcase " \o ToStr(tc_id)),
      preconditions |-> StringArray(Prop(t, "preconditions")),
      steps |-> StringArray(Prop(t, "steps")),
      expected |->
        IF Prop(t, "expected").ty = "str" THEN Prop(t, "expected")
        ELSE IF IsArr(Prop(t, "expected")) THEN Str(Join(Prop(t, "expected").a, " "))
        ELSE Str(""),
      automatable |->
        IF Prop(t, "automatable").ty = "bool" THEN Prop(t, "automatable") ELSE Bool(FALSE),
      suggested_tool |->
        IF Prop(t, "suggested_tool").ty = "str" THEN Prop(t, "suggested_tool")
        ELSE Str("manual"),
      confidence |-> NormConfidence(Prop(t, "confidence")),
      compliance |-> StringArray(Prop(t, "compliance"))]

\* Reading t.tc_id throws a TypeError when t is null or undefined.
NormRaises(t) == t.ty \in {"null", "undef"}

\* normalizeTestcaseForStore(t, reqId): [raised, v].
normalizeTestcaseForStore(t, reqId, nonce) ==
  IF NormRaises(t) THEN [raised |-> TRUE, v |-> Undef]
  ELSE [raised |-> FALSE, v |-> ObjOf(NormRecord(t, reqId, nonce))]

(***************************************************************************)
(* Model output as text.  A text is a sequence of tokens [c, s, n]; c is   *)
(* the class of the token:                                                 *)
(*   "{" "}" "[" "]"   the bracket characters the scanner counts           *)
(*   "fence"           a markdown fence, with or without the json tag      *)
(*   "q"               a double quote                                      *)
(*   "text"            characters that are neither brackets nor quotes     *)
(*   "key"             a quoted property name and its colon                *)
(*   "num" "inf" "true" "false" "null"   JSON literals                     *)
(* White space and the commas between elements are not represented.        *)
(***************************************************************************)
Tok(c, s, n) == [c |-> c, s |-> s, n |-> n]
LC == Tok("{", "{", 0)
RC == Tok("}", "}", 0)
LB == Tok("[", "[", 0)
RB == Tok("]", "]", 0)
Fence == Tok("fence", "<fence>", 0)
FenceJson == Tok("fence", "<fence>json", 0)
Q == Tok("q", "\"", 0)
W(x) == Tok("text", x, 0)
K(name) == Tok("key", name, 0)
N(k) == Tok("num", NumToString(k), k)
TInf == Tok("inf", "1e999", 0)
TTrue == Tok("true", "true", 0)
TFalse == Tok("false", "false", 0)
TNull == Tok("null", "null", 0)

\* A JSON string literal.
S(x) == <<Q, W(x), Q>>

RECURSIVE Strip(_)
\* The two replace calls that delete every fence marker, then trim().
Strip(text) ==
  IF text = <<>> THEN <<>>
  ELSE IF Head(text).c = "fence" THEN Strip(Tail(text))
  ELSE <<Head(text)>> \o Strip(Tail(text))

NotFound == [found |-> FALSE, frag |-> <<>>]

\* A scanner that stops at the first close after the first open.
ScanFirstClose(cleaned, i, count, startIdx, open, close) ==
  LET opens == {k \in i..Len(cleaned) : cleaned[k].c = open}
      first == CHOOSE k \in opens : \A j \in opens : k <= j
      closes == {k \in first..Len(cleaned) : cleaned[k].c = close}
  IN IF opens = {} \/ closes = {} THEN NotFound
     ELSE [found |-> TRUE,
           frag |-> SubSeq(cleaned, first, CHOOSE k \in closes : \A j \in closes : k <= j)]

RECURSIVE ScanBalanced(_, _, _, _, _, _)
\* One of the two loops of extractFirstJson: count opens and closes from
\* position i on and return the substring from the first open to the close
\* that takes the count to zero.
ScanBalanced(cleaned, i, count, startIdx, open, close) ==
  IF i > Len(cleaned) THEN NotFound
  ELSE IF cleaned[i].c = open
  THEN ScanBalanced(cleaned, i + 1, count + 1,
                    IF startIdx = -1 THEN i ELSE startIdx, open, close)
  ELSE IF cleaned[i].c = close
  THEN IF count - 1 = 0 /\ startIdx # -1
       THEN [found |-> TRUE, frag |-> SubSeq(cleaned, startIdx, i)]
       ELSE ScanBalanced(cleaned, i + 1, count - 1, startIdx, open, close)
  ELSE ScanBalanced(cleaned, i + 1, count, startIdx, open, close)

\* extractFirstJson(text, retType) for a string text; the empty text gives null.
extractFirstJson(text, retType) ==
  IF text = <<>> THEN NotFound
  ELSE LET cleaned == Strip(text)
           asObject == IF retType = "object"
                       THEN ScanBalanced(cleaned, 1, 0, -1, "{", "}")
                       ELSE NotFound
       IN IF asObject.found THEN asObject
          ELSE ScanBalanced(cleaned, 1, 0, -1, "[", "]")

(***************************************************************************)
(* JSON.parse of a fragment of tokens: [ok, v, next].                      *)
(***************************************************************************)
ParseFail == [ok |-> FALSE, v |-> Undef, next |-> 0]

RECURSIVE ParseValue(_, _)
RECURSIVE ParseMembers(_, _, _)
RECURSIVE ParseItems(_, _, _)
RECURSIVE ParseString(_, _, _)

ParseValue(toks, i) ==
  IF i > Len(toks) THEN ParseFail
  ELSE CASE toks[i].c = "{" -> ParseMembers(toks, i + 1, NoProps)
         [] toks[i].c = "[" -> ParseItems(toks, i + 1, <<>>)
         [] toks[i].c = "q" -> ParseString(toks, i + 1, "")
         [] toks[i].c = "num" -> [ok |-> TRUE, v |-> Num(toks[i].n), next |-> i + 1]
         [] toks[i].c = "inf" -> [ok |-> TRUE, v |-> Inf, next |-> i + 1]
         [] toks[i].c = "true" -> [ok |-> TRUE, v |-> Bool(TRUE), next |-> i + 1]
         [] toks[i].c = "false" -> [ok |-> TRUE, v |-> Bool(FALSE), next |-> i + 1]
         [] toks[i].c = "null" -> [ok |-> TRUE, v |-> Null, next |-> i + 1]
         [] OTHER -> ParseFail

\* The members of an object; a property the code never reads is dropped.
ParseMembers(toks, i, f) ==
  IF i > Len(toks) THEN ParseFail
  ELSE IF toks[i].c = "}" THEN [ok |-> TRUE, v |-> ObjOf(f), next |-> i + 1]
  ELSE IF toks[i].c = "key"
  THEN LET r == ParseValue(toks, i + 1)
       IN IF ~r.ok THEN ParseFail
          ELSE ParseMembers(toks, r.next,
                            IF toks[i].s \in Fields
                            THEN [f EXCEPT ![toks[i].s] = r.v] ELSE f)
  ELSE ParseFail

ParseItems(toks, i, xs) ==
  IF i > Len(toks) THEN ParseFail
  ELSE IF toks[i].c = "]" THEN [ok |-> TRUE, v |-> Arr(xs), next |-> i + 1]
  ELSE LET r == ParseValue(toks, i)
       IN IF ~r.ok THEN ParseFail ELSE ParseItems(toks, r.next, Append(xs, r.v))

\* The characters of a string literal, up to its closing quote.
ParseString(toks, i, acc) ==
  IF i > Len(toks) THEN ParseFail
  ELSE IF toks[i].c = "q" THEN [ok |-> TRUE, v |-> Str(acc), next |-> i + 1]
  ELSE ParseString(toks, i + 1, acc \o toks[i].s)

\* try { parsed = JSON.parse(block) } catch (e) { parsed = null }
JSONparse(frag) ==
  LET r == ParseValue(frag, 1)
  IN IF r.ok /\ r.next = Len(frag) + 1 THEN r.v ELSE Null

\* The value recovered from a text: null when no block is found or the block
\* does not parse.
Recover(text, retType) ==
  LET block == extractFirstJson(text, retType)
  IN IF block.found THEN JSONparse(block.frag) ELSE Null

\* A retry condition that does not look at the recovered value.
AnyShape(parsed) == TRUE

\* if (!Array.isArray(parsed)): the array flows retry, and then fail.
NotArrayShape(parsed) == ~IsArr(parsed)

\* if (!parsed || typeof parsed !== "object" || Array.isArray(parsed)): the
\* object flow retries, and then fails.
NotObjectShape(parsed) ==
  ~Truthy(parsed) \/ parsed.ty \notin {"obj", "arr"} \/ IsArr(parsed)

(***************************************************************************)
(* The texts the generation client answers with in this model.             *)
(***************************************************************************)
\* {"tc_id": id, "title": "Check <id>"}
Mini(id) == <<LC, K("tc_id")>> \o S(id) \o <<K("title")>> \o S("Check " \o id) \o <<RC>>

\* A testcase object with every field of the instruction.
Full(id) ==
  <<LC, K("tc_id")>> \o S(id) \o <<K("req_id")>> \o S("R1")
    \o <<K("jira_id"), Q, Q, K("title")>> \o S("Login works")
    \o <<K("preconditions"), LB>> \o S("user exists") \o <<RB>>
    \o <<K("steps"), LB, Q, W("Use array "), LB, W("1,2,3"), RB, Q, RB>>
    \o <<K("expected")>> \o S("ok") \o <<K("automatable"), TTrue>>
    \o <<K("suggested_tool")>> \o S("selenium") \o <<K("confidence"), N(9)>>
    \o <<K("compliance"), LB>> \o S("ISO") \o <<RB, RC>>

\* {"tc_id": id, "title": "Check <id>", "suggested_tool": ""}
Blank(id) ==
  <<LC, K("tc_id")>> \o S(id) \o <<K("title")>> \o S("Check " \o id)
    \o <<K("suggested_tool"), Q, Q, RC>>

TxGood ==
  <<W("Here is the result:"), FenceJson, LB>> \o Full("T1") \o Blank("T2")
    \o <<RB, Fence, W("Thanks!")>>
TxDup == <<LB>> \o Mini("T1") \o Mini("T1") \o <<RB>>
TxEmptyArr == <<LB, RB>>
TxNullElem == <<LB>> \o Mini("T1") \o <<TNull, RB>>
TxEmptyId == <<LB, LC, K("tc_id"), Q, Q, K("title")>> \o S("x") \o <<RC, RB>>
TxProse == <<W("I cannot help with that.")>>
TxTruncated == <<LB>> \o Mini("T1") \o <<LC, K("tc_id")>>
TxBadJson == <<LB, W("oops"), RB>>
TxWrapped == <<LC, K("testcases"), LB>> \o Mini("T9") \o <<RB, RC>>
TxOdd ==
  <<LB, LC, K("id"), N(70), K("confidence")>> \o S("1.5") \o <<K("jira_id")>> \o S("J-1")
    \o <<RC, RB>>
TxEmpty == <<>>
TxTitleOnly == <<Fence, LC, K("title")>> \o S("New title") \o <<RC, Fence>>
TxRename == Full("OTHER")
TxWrongTypes ==
  <<LC, K("jira_id"), N(50), K("title"), TNull, K("req_id"), LB, RB, K("confidence")>>
    \o S("abc") \o <<K("steps")>> \o S("x") \o <<RC>>
\* {"jira_id": null, "title": 7, "confidence": "0.7abc", "steps": "x"}
TxCoerced ==
  <<LC, K("jira_id"), TNull, K("title"), N(70), K("confidence")>> \o S("0.7abc")
    \o <<K("steps")>> \o S("x") \o <<RC>>

\* The texts by name: a response carries the name of its text.
Texts ==
  {"good", "dup", "emptyArr", "nullElem", "emptyId", "prose", "truncated", "badJson",
   "wrapped", "odd", "empty", "titleOnly", "rename", "wrongTypes", "coerced"}

\* JSON.stringify of a response object: the SDK's envelope, which has none of
\* the properties of a testcase.
Envelope == <<LC, K("finishReason")>> \o S("stop") \o <<RC>>

TextOf(name) ==
  CASE name = "good" -> TxGood
    [] name = "dup" -> TxDup
    [] name = "emptyArr" -> TxEmptyArr
    [] name = "nullElem" -> TxNullElem
    [] name = "emptyId" -> TxEmptyId
    [] name = "prose" -> TxProse
    [] name = "truncated" -> TxTruncated
    [] name = "badJson" -> TxBadJson
    [] name = "wrapped" -> TxWrapped
    [] name = "odd" -> TxOdd
    [] name = "empty" -> TxEmpty
    [] name = "titleOnly" -> TxTitleOnly
    [] name = "rename" -> TxRename
    [] name = "wrongTypes" -> TxWrongTypes
    [] name = "coerced" -> TxCoerced
    [] OTHER -> Envelope

\* A response of ai.generate is [threw, text]: the call rejects, or resolves
\* to an object with the text of that name.
\* genResp?.text || genResp?.output || ... || fallback
CandidateText(r, fallback) == IF r.text # "empty" THEN r.text ELSE fallback

\* The blocks of the texts of the model and their parses, computed once.
Extracted ==
  [t \in Texts \cup {"envelope"} |->
     [array |-> extractFirstJson(TextOf(t), "array"),
      object |-> extractFirstJson(TextOf(t), "object")]]

Parsed ==
  [t \in Texts \cup {"envelope"} |->
     [array |-> JSONparse(Extracted[t].array.frag),
      object |-> JSONparse(Extracted[t].object.frag)]]

\* One generation attempt on the text of that name: let parsed = prev; if a
\* block is found, parsed becomes its JSON.parse, or null when that throws.
Attempt(prev, text, retType) ==
  IF Extracted[text][retType].found THEN Parsed[text][retType] ELSE prev

(***************************************************************************)
(* The documents of the record store.  Requirements and standards are      *)
(* read-only here; GeneratedSets are the variable `store`, in creation     *)
(* order, and the _id of a set is its position.                            *)
(***************************************************************************)
Users == {"u1", "u2"}

RequirementDocs ==
  {[user |-> "u1", reqId |-> "R1", title |-> "Login", fileUri |-> "files/r1"],
   [user |-> "u1", reqId |-> "R2", title |-> "Audit", fileUri |-> ""],
   [user |-> "u2", reqId |-> "R1", title |-> "Export", fileUri |-> "files/x1"]}

StandardDocs ==
  {[user |-> "u1", filename |-> "S1.pdf", fileUri |-> "files/s1"],
   [user |-> "u1", filename |-> "S2.pdf", fileUri |-> ""],
   [user |-> "u2", filename |-> "S1.pdf", fileUri |-> "files/s1b"]}

\* A lookup by reqId alone, over the requirements of every user.
AnyUsersRequirement(user, reqId) == {d \in RequirementDocs : d.reqId = reqId}

\* Requirement.findOne({ user, reqId }): the set of matches, at most one.
FindRequirement(user, reqId) ==
  {d \in RequirementDocs : d.user = user /\ d.reqId = reqId}

(***************************************************************************)
(* Mongoose casting and validation of a testcase against testcaseSchema.   *)
(* A stored testcase is a record of strings, string sequences, a boolean   *)
(* and a number in tenths.                                                 *)
(***************************************************************************)
\* A String path: numbers and booleans are converted, arrays and plain
\* objects are a CastError, null and undefined stay absent.
CastString(v) ==
  CASE v.ty \in {"undef", "null"} -> [ok |-> TRUE, absent |-> TRUE, s |-> ""]
    [] v.ty \in {"arr", "obj"} -> [ok |-> FALSE, absent |-> TRUE, s |-> ""]
    [] OTHER -> [ok |-> TRUE, absent |-> FALSE, s |-> ScalarToStr(v)]

\* required: true on a String path rejects an absent value and the empty string.
RequiredString(v) ==
  LET c == CastString(v) IN c.ok /\ ~c.absent /\ c.s # ""

Strings(xs) == Tuple([i \in 1..Len(xs) |-> xs[i].s])

\* Whether validation accepts the record v (an object built by the handlers).
ValidTestcase(v) ==
  /\ RequiredString(v.f["tc_id"])
  /\ RequiredString(v.f["req_id"])
  /\ RequiredString(v.f["title"])
  /\ CastString(v.f["jira_id"]).ok

\* The stored form of a record that validation accepts.
CastTestcase(v) ==
  [tc_id |-> CastString(v.f["tc_id"]).s,
   req_id |-> CastString(v.f["req_id"]).s,
   jira_id |-> CastString(v.f["jira_id"]).s,
   title |-> CastString(v.f["title"]).s,
   preconditions |-> Strings(v.f["preconditions"].a),
   steps |-> Strings(v.f["steps"].a),
   expected |-> v.f["expected"].s,
   automatable |-> v.f["automatable"].n = 1,
   suggested_tool |-> v.f["suggested_tool"].s,
   confidence |-> v.f["confidence"].n,
   compliance |-> Strings(v.f["compliance"].a)]

(***************************************************************************)
(* State.                                                                  *)
(*   store     the GeneratedSet collection, in creation order              *)
(*   aiReady   whether the generation client was initialized at start-up   *)
(*   jiraReady whether the issue-tracker settings are in the environment   *)
(*   issues    the issues created in the issue tracker, in creation order  *)
(*   rq        the generation request in flight: its handler's locals and  *)
(*             the await it is suspended at (pc), with the prompt of the   *)
(*             generation call it waits for                                *)
(*   resp      the HTTP response on its way to the client                  *)
(*   last      the record of the item a generation flow has just finished: *)
(*             calls issued, responses received, audit writes attempted,   *)
(*             whether the first attempt recovered a value of the wrong    *)
(*             shape, the outcome, and the recovered value when it was     *)
(*             stored; cleared with the response                           *)
(*   io        the store queries and document fetches that the code of the *)
(*             step just taken issued                                      *)
(*   nreqs     requests accepted so far                                    *)
(*   nin, nrid, nedits, nres, nres2   the normalizer on its own: the       *)
(*             value and fallback id it is given, its result, and the      *)
(*             result of normalizing that result again                     *)
(*   xa, xtext, xres   the extractor on its own: the elements of a JSON    *)
(*             array text, the response text the array text is wrapped in, *)
(*             and what extractFirstJson returns for that text             *)
(***************************************************************************)
VARIABLES store, aiReady, jiraReady, issues, rq, resp, last, io, nreqs,
          nin, nrid, nedits, nres, nres2, xa, xtext, xres

vars ==
  <<store, aiReady, jiraReady, issues, rq, resp, last, io, nreqs,
    nin, nrid, nedits, nres, nres2, xa, xtext, xres>>
normVars == <<nin, nrid, nedits, nres, nres2>>
extractVars == <<xa, xtext, xres>>
pureVars == <<normVars, extractVars>>
jiraVars == <<jiraReady, issues>>
flowVars == <<store, aiReady, jiraVars, rq, resp, last, io, nreqs>>
\* What the routes other than the mirror leave alone.
restVars == <<pureVars, jiraVars>>

\* The prompt override of a request body: absent, blank, or an instruction.
Overrides == {Undef, Str(""), Str("be brief")}

\* promptOverride && typeof promptOverride === "string" && promptOverride.trim()
HasOverride(o) == o.ty = "str" /\ o.s # ""

IdleRq ==
  [pc |-> "idle", flow |-> "none", user |-> "u1", sel |-> <<>>, stds |-> <<>>,
   override |-> Undef, i |-> 0, results |-> <<>>, parsed |-> Null,
   calls |-> 0, received |-> 0, audits |-> 0, files |-> 0,
   genId |-> 0, tcId |-> "", snap |-> <<>>, prompt |-> <<>>]

NoResp ==
  [status |-> 0, error |-> "", results |-> <<>>, genId |-> 0, count |-> 0]

Reply(status, error) == [NoResp EXCEPT !.status = status, !.error = error]

IO(reads, fetches) == [reads |-> reads, fetches |-> fetches]

NoIO == IO(0, 0)

NoItem ==
  [flow |-> "none", key |-> "", calls |-> 0, received |-> 0, audits |-> 0,
   firstBad |-> FALSE, outcome |-> "none", recovered |-> Null]

\* The record of the item the request in flight has just finished.
Finished(r, outcome, firstBad) ==
  [flow |-> r.flow,
   key |-> IF r.flow = "bulk" THEN r.sel[r.i] ELSE IF r.flow = "tcregen" THEN r.tcId
           ELSE r.sel[1],
   calls |-> r.calls, received |-> r.received, audits |-> r.audits,
   firstBad |-> firstBad, outcome |-> outcome, recovered |-> Null]

\* The record of an item whose recovered value was normalized and stored.
Stored(r, firstBad, parsed) ==
  [Finished(r, "stored", firstBad) EXCEPT !.recovered = parsed]

\* The audit write after a response: fs.appendFileSync inside try/catch.
Audited(r, auditOk) ==
  [r EXCEPT !.audits = @ + 1, !.files = @ + (IF auditOk THEN 1 ELSE 0)]

\* parsed.map(t => normalizeTestcaseForStore(t, reqId)): [raised, vs].
NormalizeAll(xs, reqId, ns) ==
  LET each == Tuple([k \in 1..Len(xs) |-> normalizeTestcaseForStore(xs[k], reqId, ns[k])])
  IN [raised |-> \E k \in 1..Len(xs) : each[k].raised,
      vs |-> Tuple([k \in 1..Len(xs) |-> each[k].v])]

\* The choices of synthesized ids for the elements of an array.
NonceSeqs(xs) == [1..Len(xs) -> Nonces]

AllValid(vs) == \A k \in 1..Len(vs) : ValidTestcase(vs[k])

\* A store that keeps the records last to first.
CastAllReversed(vs) == Tuple([k \in 1..Len(vs) |-> CastTestcase(vs[Len(vs) + 1 - k])])

CastAll(vs) == Tuple([k \in 1..Len(vs) |-> CastTestcase(vs[k])])

\* promptOverride: promptOverride || undefined, on a String path.
StoredOverride(o) == IF Truthy(o) /\ CastString(o).ok THEN CastString(o).s ELSE ""

\* The document GeneratedSet.create builds.
NewSet(user, reqDoc, stds, override, tcs) ==
  [user |-> user, requirement |-> reqDoc.reqId, requirementId |-> reqDoc.reqId,
   requirementTitle |-> reqDoc.title, jiraId |-> "", selectedStandards |-> stds,
   testcases |-> tcs, promptOverride |-> StoredOverride(override)]

\* A set made of a response that no array was recovered from.
StoreUnparsed(st) ==
  Append(st, NewSet("u1", CHOOSE d \in RequirementDocs : d.reqId = "R2", <<>>, Undef, <<>>))

\* What the branch that reports "AI did not return parseable JSON" leaves
\* in the store: the raw text is not stored.
StoreOnRecoveryFailure(st) == st

(***************************************************************************)
(* POST /testcases: bulk create.  The loop over selectedRequirements is    *)
(* suspended at the two ai.generate calls; each action is the code from    *)
(* one of them to the next.                                                *)
(***************************************************************************)
FailEntry(reqId, error) ==
  [req_id |-> reqId, success |-> FALSE, error |-> error, genId |-> 0, count |-> 0]

OkEntry(reqId, genId, count) ==
  [req_id |-> reqId, success |-> TRUE, error |-> "", genId |-> genId, count |-> count]

(***************************************************************************)
(* Prompts: the sequence of blocks given to ai.generate.  A block is a     *)
(* text block, named by what it says, or a media reference to a file URI.  *)
(***************************************************************************)
TextBlock(what) == [kind |-> "text", what |-> what]

MediaBlock(uri) == [kind |-> "media", what |-> uri]

\* The file URI of the requirement, "" when it has none.
RequirementUri(user, reqId) == (CHOOSE d \in FindRequirement(user, reqId) : TRUE).fileUri

\* The file URI of the standard the user has under this name, "" when the
\* name is unknown or the standard has no file: stdEntry?.fileUri.
StandardUri(user, name) ==
  LET docs == {d \in StandardDocs : d.user = user /\ d.filename = name}
  IN IF docs = {} THEN "" ELSE (CHOOSE d \in docs : TRUE).fileUri

RECURSIVE StandardUris(_, _)
\* The file URIs of the selected standards that have one, in request order.
StandardUris(user, stds) ==
  IF stds = <<>> THEN <<>>
  ELSE (IF StandardUri(user, Head(stds)) # "" THEN <<StandardUri(user, Head(stds))>> ELSE <<>>)
         \o StandardUris(user, Tail(stds))

\* One block for each element.
Blocks(xs, block) == Tuple([k \in 1..Len(xs) |-> block])

MediaBlocks(uris) == Tuple([k \in 1..Len(uris) |-> MediaBlock(uris[k])])

\* if (reqEntry.fileUri) parts.push({ media }); then one for each standard
\* with a file URI.
Attachments(user, reqId, stds) ==
  (IF RequirementUri(user, reqId) # "" THEN <<MediaBlock(RequirementUri(user, reqId))>>
   ELSE <<>>) \o MediaBlocks(StandardUris(user, stds))

\* The parts of the first call of bulk create for one requirement.
BulkPrompt(user, reqId, stds, override) ==
  <<TextBlock("instruction")>>
    \o (IF override.ty = "str" /\ override.s # "" THEN <<TextBlock("override")>> ELSE <<>>)
    \o <<TextBlock("metadata"), TextBlock("standards list")>>
    \o Blocks(StandardUris(user, stds), TextBlock("standard"))
    \o <<TextBlock("directive")>>

\* The retryParts of bulk create.
BulkRetryPrompt(user, reqId, stds, override) ==
  <<TextBlock("retry instruction"), TextBlock("instruction")>>
    \o (IF override.ty = "str" /\ override.s # "" THEN <<TextBlock("override")>> ELSE <<>>)
    \o <<TextBlock("requirement")>>
    \o Blocks(StandardUris(user, stds), TextBlock("standard"))

\* The parts of the first call of the requirement-level regenerate: the
\* override is joined into the instruction block.
ReqRegenPrompt(user, reqId, stds) ==
  <<TextBlock("instruction"), TextBlock("metadata"), TextBlock("standards list")>>
    \o Blocks(StandardUris(user, stds), TextBlock("standard"))
    \o <<TextBlock("directive")>>
    \o Attachments(user, reqId, stds)

ReqRegenRetryPrompt(user, reqId, stds) ==
  <<TextBlock("retry instruction"), TextBlock("requirement")>>
    \o Blocks(StandardUris(user, stds), TextBlock("standard"))
    \o Attachments(user, reqId, stds)

\* The parts of the calls of the single-testcase regenerate: one
\* instruction block, then the media references.
TcRegenPrompt(user, reqId, stds, instruction) ==
  <<TextBlock(instruction)>> \o Attachments(user, reqId, stds)

\* The fetchAndExtract calls of one item: the requirement when it has a
\* file URI, and each selected standard that is found with a file URI.
ItemFetches(user, reqId, stds) ==
  LET reqDoc == CHOOSE d \in FindRequirement(user, reqId) : TRUE
      fetched == {k \in 1..Len(stds) :
                    \E d \in StandardDocs :
                      d.user = user /\ d.filename = stds[k] /\ d.fileUri # ""}
  IN (IF reqDoc.fileUri # "" THEN 1 ELSE 0) + Cardinality(fetched)

RECURSIVE LoopFetches(_, _, _, _, _)
\* The fetchAndExtract calls of the loop from item i to its next
\* ai.generate call: an item without generation client has fetched its
\* documents before the client is tested.
LoopFetches(user, sel, stds, i, ready) ==
  IF i > Len(sel) THEN 0
  ELSE IF FindRequirement(user, sel[i]) = {} THEN LoopFetches(user, sel, stds, i + 1, ready)
  ELSE ItemFetches(user, sel[i], stds)
         + (IF ready THEN 0 ELSE LoopFetches(user, sel, stds, i + 1, ready))

RECURSIVE BulkSkip(_, _, _, _, _)
\* The iterations that end in `continue` before any generation call: an
\* unknown requirement, or no generation client.  [i, results]: the first
\* item that reaches ai.generate, or Len(sel) + 1.
BulkSkip(user, sel, i, results, ready) ==
  IF i > Len(sel) THEN [i |-> i, results |-> results]
  ELSE IF FindRequirement(user, sel[i]) = {}
  THEN BulkSkip(user, sel, i + 1, Append(results, FailEntry(sel[i], "requirement not found")),
                ready)
  ELSE IF ~ready
  THEN BulkSkip(user, sel, i + 1,
                Append(results, FailEntry(sel[i], "AI client not initialized")), ready)
  ELSE [i |-> i, results |-> results]

\* Go on with the loop at item i: suspend at the first ai.generate call of
\* the next item that has one, or send the result list.
BulkResume(r, i, results) ==
  LET sk == BulkSkip(r.user, r.sel, i, results, aiReady)
  IN IF sk.i > Len(r.sel)
     THEN /\ rq' = IdleRq
          /\ resp' = [NoResp EXCEPT !.status = 200, !.results = sk.results]
     ELSE /\ rq' = [r EXCEPT !.pc = "gen1", !.i = sk.i, !.results = sk.results,
                             !.parsed = Null, !.calls = 1, !.received = 0,
                             !.audits = 0, !.files = 0,
                             !.prompt = BulkPrompt(r.user, r.sel[sk.i], r.stds, r.override)]
          /\ resp' = resp

\* The outer catch, after this many store queries: 500, and the result
\* list is dropped.
AbortAfter(r, outcome, firstBad, error, reads) ==
  /\ rq' = IdleRq
  /\ resp' = Reply(500, error)
  /\ last' = Finished(r, outcome, firstBad)
  /\ store' = store
  /\ io' = IO(reads, 0)

Abort(r, outcome, firstBad, error) == AbortAfter(r, outcome, firstBad, error, 0)

\* const { selectedRequirements = [], selectedStandards = [] } = req.body:
\* the default stands in for a missing property only.
Defaulted(v) == IF v.ty = "undef" THEN Arr(<<>>) ELSE v

\* A test that lets every value pass.
AnyList(v) == FALSE

\* !Array.isArray(x) || x.length === 0
NoList(v) == ~IsArr(v) \/ v.a = <<>>

BulkStart(user, selectedRequirements, selectedStandards, override) ==
  LET sel == Strings(Defaulted(selectedRequirements).a)
      stds == Strings(Defaulted(selectedStandards).a)
  IN /\ rq.pc = "idle"
     /\ nreqs < MaxRequests
     /\ nreqs' = nreqs + 1
     /\ UNCHANGED <<store, aiReady, last>>
     /\ IF NoList(Defaulted(selectedRequirements))
        THEN /\ rq' = rq /\ io' = NoIO
             /\ resp' = Reply(400, "selectedRequirements must be provided")
        ELSE IF NoList(Defaulted(selectedStandards))
        THEN /\ rq' = rq /\ io' = NoIO
             /\ resp' = Reply(400, "selectedStandards must be provided")
        ELSE /\ io' = IO(2, LoopFetches(user, sel, stds, 1, aiReady))
             /\ BulkResume([IdleRq EXCEPT !.flow = "bulk", !.user = user, !.sel = sel,
                                           !.stds = stds, !.override = override],
                            1, <<>>)

\* Normalize the recovered array and create the set of item r.i.
BulkStore(r, parsed, ns, firstBad) ==
  LET reqId == r.sel[r.i]
      reqDoc == CHOOSE d \in FindRequirement(r.user, reqId) : TRUE
      norm == NormalizeAll(parsed.a, reqId, ns)
  IN IF norm.raised
     THEN Abort(r, "raised", firstBad, "Testcase generation failed")
     ELSE IF ~AllValid(norm.vs)
     THEN Abort(r, "invalid", firstBad, "Testcase generation failed")
     ELSE /\ store' = Append(store, NewSet(r.user, reqDoc, r.stds, r.override,
                                           CastAll(norm.vs)))
          /\ last' = Stored(r, firstBad, parsed)
          /\ io' = IO(0, LoopFetches(r.user, r.sel, r.stds, r.i + 1, aiReady))
          /\ BulkResume(r, r.i + 1,
                        Append(r.results, OkEntry(reqId, Len(store) + 1, Len(norm.vs))))

\* The first response of item rq.i.
BulkGen1(g, auditOk) ==
  /\ rq.pc = "gen1" /\ rq.flow = "bulk"
  /\ UNCHANGED <<aiReady, nreqs>>
  /\ IF g.threw
     THEN Abort(rq, "threw", FALSE, "Testcase generation failed")
     ELSE LET r == Audited([rq EXCEPT !.received = @ + 1], auditOk)
              parsed == Attempt(Null, CandidateText(g, "empty"), "array")
          IN IF NotArrayShape(parsed)
             THEN /\ rq' = [r EXCEPT !.pc = "gen2", !.parsed = parsed, !.calls = @ + 1,
                                  !.prompt = BulkRetryPrompt(r.user, r.sel[r.i], r.stds,
                                                             r.override)]
                  /\ UNCHANGED <<store, resp, last>> /\ io' = NoIO
             ELSE \E ns \in NonceSeqs(parsed.a) : BulkStore(r, parsed, ns, FALSE)

\* The response of the retry of item rq.i.
BulkGen2(g, auditOk) ==
  /\ rq.pc = "gen2" /\ rq.flow = "bulk"
  /\ UNCHANGED <<aiReady, nreqs>>
  /\ IF g.threw
     THEN Abort(rq, "threw", TRUE, "Testcase generation failed")
     ELSE LET r == Audited([rq EXCEPT !.received = @ + 1], auditOk)
              parsed == Attempt(rq.parsed, CandidateText(g, "envelope"), "array")
          IN IF NotArrayShape(parsed)
             THEN /\ store' = StoreOnRecoveryFailure(store)
                  /\ last' = Finished(r, "recovery_failure", TRUE)
                  /\ io' = IO(0, LoopFetches(r.user, r.sel, r.stds, r.i + 1, aiReady))
                  /\ BulkResume(r, r.i + 1,
                       Append(r.results,
                              FailEntry(r.sel[r.i],
                                "AI did not return parseable JSON after retry. See server audit logs.")))
             ELSE \E ns \in NonceSeqs(parsed.a) : BulkStore(r, parsed, ns, TRUE)

(***************************************************************************)
(* POST /requirements/:reqId/regenerate: requirement-level regenerate.     *)
(***************************************************************************)
\* A lookup that finds no earlier set.
NoSet(st, user, reqId) == 0

\* GeneratedSet.findOne({ user, requirementId }).sort({ createdAt: -1 }):
\* the _id of the latest set of the requirement, 0 when there is none.
LatestSet(st, user, reqId) ==
  LET ids == {k \in 1..Len(st) : st[k].user = user /\ st[k].requirementId = reqId}
  IN IF ids = {} THEN 0 ELSE CHOOSE k \in ids : \A j \in ids : j <= k

ReqRegenStart(user, reqId, selectedStandards, override) ==
  LET stds == Strings(Defaulted(selectedStandards).a)
  IN /\ rq.pc = "idle"
     /\ nreqs < MaxRequests
     /\ nreqs' = nreqs + 1
     /\ UNCHANGED <<store, aiReady, last>>
     /\ IF NoList(Defaulted(selectedStandards))
        THEN /\ rq' = rq /\ io' = NoIO
             /\ resp' = Reply(400, "selectedStandards must be provided")
        ELSE IF FindRequirement(user, reqId) = {}
        THEN /\ rq' = rq /\ io' = IO(1, 0)
             /\ resp' = Reply(404, "Requirement not found")
        ELSE /\ io' = IO(2, ItemFetches(user, reqId, stds))
             /\ IF ~aiReady
                THEN rq' = rq /\ resp' = Reply(500, "AI client not initialized")
                ELSE /\ rq' = [IdleRq EXCEPT !.pc = "gen1", !.flow = "reqregen",
                                             !.user = user, !.sel = <<reqId>>, !.i = 1,
                                             !.stds = stds, !.override = override,
                                             !.calls = 1,
                                             !.prompt = ReqRegenPrompt(user, reqId, stds)]
                     /\ resp' = resp

\* Normalize the recovered array, then overwrite the latest set of the
\* requirement in place, or create the first one.
ReqRegenStore(r, parsed, ns, firstBad) ==
  LET reqId == r.sel[1]
      reqDoc == CHOOSE d \in FindRequirement(r.user, reqId) : TRUE
      norm == NormalizeAll(parsed.a, reqId, ns)
      k == LatestSet(store, r.user, reqDoc.reqId)
      genId == IF k = 0 THEN Len(store) + 1 ELSE k
  IN IF norm.raised
     THEN Abort(r, "raised", firstBad, "Regeneration failed")
     ELSE IF ~AllValid(norm.vs)
     THEN AbortAfter(r, "invalid", firstBad, "Regeneration failed", 1)
     ELSE /\ io' = IO(1, 0)
          /\ store' =
               IF k = 0
               THEN Append(store, NewSet(r.user, reqDoc, r.stds, r.override, CastAll(norm.vs)))
               ELSE [store EXCEPT ![k] =
                       [@ EXCEPT !.requirement = reqDoc.reqId,
                                 !.requirementId = reqDoc.reqId,
                                 !.requirementTitle = reqDoc.title,
                                 !.selectedStandards = r.stds,
                                 !.testcases = CastAll(norm.vs),
                                 !.promptOverride = StoredOverride(r.override)]]
          /\ last' = Stored(r, firstBad, parsed)
          /\ rq' = IdleRq
          /\ resp' = [NoResp EXCEPT !.status = 200, !.genId = genId, !.count = Len(norm.vs)]

ReqRegenGen1(g, auditOk) ==
  /\ rq.pc = "gen1" /\ rq.flow = "reqregen"
  /\ UNCHANGED <<aiReady, nreqs>>
  /\ IF g.threw
     THEN Abort(rq, "threw", FALSE, "Regeneration failed")
     ELSE LET r == Audited([rq EXCEPT !.received = @ + 1], auditOk)
              parsed == Attempt(Null, CandidateText(g, "envelope"), "array")
          IN IF NotArrayShape(parsed)
             THEN /\ rq' = [r EXCEPT !.pc = "gen2", !.parsed = parsed, !.calls = @ + 1,
                                  !.prompt = ReqRegenRetryPrompt(r.user, r.sel[1], r.stds)]
                  /\ UNCHANGED <<store, resp, last>> /\ io' = NoIO
             ELSE \E ns \in NonceSeqs(parsed.a) : ReqRegenStore(r, parsed, ns, FALSE)

ReqRegenGen2(g, auditOk) ==
  /\ rq.pc = "gen2" /\ rq.flow = "reqregen"
  /\ UNCHANGED <<aiReady, nreqs>>
  /\ IF g.threw
     THEN Abort(rq, "threw", TRUE, "Regeneration failed")
     ELSE LET r == Audited([rq EXCEPT !.received = @ + 1], auditOk)
              parsed == Attempt(rq.parsed, CandidateText(g, "envelope"), "array")
          IN IF NotArrayShape(parsed)
             THEN /\ store' = StoreOnRecoveryFailure(store)
                  /\ last' = Finished(r, "recovery_failure", TRUE)
                  /\ io' = NoIO
                  /\ rq' = IdleRq
                  /\ resp' = Reply(500,
                       "AI did not return parseable JSON after retry. See server audit logs.")
             ELSE \E ns \in NonceSeqs(parsed.a) : ReqRegenStore(r, parsed, ns, TRUE)

(***************************************************************************)
(* POST /testcases/:genId/regenerate/:tcId: single-testcase regenerate.    *)
(***************************************************************************)
\* GeneratedSet.findOne({ _id: genId, user }): the sets found, at most one.
FindSet(st, user, genId) ==
  IF genId \in 1..Len(st) /\ st[genId].user = user THEN {genId} ELSE {}

\* testcases.findIndex(t => t.tc_id === tcId), with 0 for -1.
FindTcIndex(tcs, tcId) ==
  LET hits == {k \in 1..Len(tcs) : tcs[k].tc_id = tcId}
  IN IF hits = {} THEN 0 ELSE CHOOSE k \in hits : \A j \in hits : k <= j

StrArr(xs) == Arr(Tuple([k \in 1..Len(xs) |-> Str(xs[k])]))

\* A merge that takes the tc_id of the recovered object when it has one.
ModelTcId(parsed, tcId) ==
  IF Prop(parsed, "tc_id").ty = "str" THEN Prop(parsed, "tc_id") ELSE Str(tcId)

\* tc_id: tcId, whatever the recovered object holds.
MergedTcId(parsed, tcId) == Str(tcId)

\* The object newTc: the fields of the recovered object, with the stored
\* testcase behind them, and the tc_id of the request.
MergeTestcase(parsed, existingTc, tcId, requirementId) ==
  ObjOf(
    [tc_id |-> MergedTcId(parsed, tcId),
     id |-> Undef,
     req_id |->
           IF Truthy(Prop(parsed, "req_id")) THEN Prop(parsed, "req_id")
           ELSE IF existingTc.req_id # "" THEN Str(existingTc.req_id)
           ELSE Str(requirementId),
     jira_id |->
           IF Prop(parsed, "jira_id").ty # "undef" THEN Str(ToStr(Prop(parsed, "jira_id")))
           ELSE Str(existingTc.jira_id),
     title |->
           IF Truthy(Prop(parsed, "title")) THEN Prop(parsed, "title")
           ELSE IF existingTc.title # "" THEN Str(existingTc.title)
           ELSE Str("Testcase " \o tcId),
     preconditions |->
           IF IsArr(Prop(parsed, "preconditions"))
           THEN Arr(MapString(Prop(parsed, "preconditions").a))
           ELSE StrArr(existingTc.preconditions),
     steps |->
           IF IsArr(Prop(parsed, "steps")) THEN Arr(MapString(Prop(parsed, "steps").a))
           ELSE StrArr(existingTc.steps),
     expected |->
           IF Prop(parsed, "expected").ty = "str" THEN Prop(parsed, "expected")
           ELSE Str(existingTc.expected),
     automatable |->
           IF Prop(parsed, "automatable").ty = "bool" THEN Prop(parsed, "automatable")
           ELSE Bool(existingTc.automatable),
     suggested_tool |->
           IF Prop(parsed, "suggested_tool").ty = "str" THEN Prop(parsed, "suggested_tool")
           ELSE IF existingTc.suggested_tool # "" THEN Str(existingTc.suggested_tool)
           ELSE Str("manual"),
     confidence |->
           IF ParseFloat(Prop(parsed, "confidence")).fin
           THEN Num(Clamp01(ParseFloat(Prop(parsed, "confidence")).n))
           ELSE Num(existingTc.confidence),
     compliance |->
           IF IsArr(Prop(parsed, "compliance")) THEN Arr(MapString(Prop(parsed, "compliance").a))
           ELSE StrArr(existingTc.compliance)])

TcRegenStart(user, genId, tcId, override) ==
  /\ rq.pc = "idle"
  /\ nreqs < MaxRequests
  /\ nreqs' = nreqs + 1
  /\ UNCHANGED <<store, aiReady, last>>
  /\ IF FindSet(store, user, genId) = {}
     THEN rq' = rq /\ io' = IO(1, 0) /\ resp' = Reply(404, "Generated set not found")
     ELSE IF FindTcIndex(store[genId].testcases, tcId) = 0
     THEN rq' = rq /\ io' = IO(1, 0) /\ resp' = Reply(404, "Testcase id not found")
     ELSE IF FindRequirement(user, store[genId].requirement) = {}
     THEN rq' = rq /\ io' = IO(2, 0) /\ resp' = Reply(404, "Requirement not found")
     ELSE IF ~aiReady
     THEN /\ rq' = rq /\ resp' = Reply(500, "AI client not initialized")
          /\ io' = IO(3, ItemFetches(user, store[genId].requirement,
                                     store[genId].selectedStandards))
     ELSE /\ io' = IO(3, ItemFetches(user, store[genId].requirement,
                                     store[genId].selectedStandards))
          /\ rq' = [IdleRq EXCEPT !.pc = "gen1", !.flow = "tcregen", !.user = user,
                                  !.genId = genId, !.tcId = tcId, !.override = override,
                                  !.snap = <<store[genId]>>,
                                  !.i = FindTcIndex(store[genId].testcases, tcId),
                                  !.calls = 1,
                                  !.prompt = TcRegenPrompt(user, store[genId].requirement,
                                                store[genId].selectedStandards,
                                                "instruction")]
          /\ resp' = resp

\* A save that writes the merged testcase in place of the array.
OnlyTarget(genEntry, i, tc) == <<tc>>

\* genEntry.testcases[tcIndex] = newTc: the array that save() writes.
SavedTestcases(genEntry, i, tc) == [genEntry.testcases EXCEPT ![i] = tc]

\* Replace the target of the loaded set by the merge and save the set:
\* markModified("testcases") writes the whole array of the loaded document.
\* When the set was written after it was loaded, save() either writes
\* that array over the stored one or, where the schema keeps a version
\* key, is rejected and the outer catch answers 500.
TcRegenStore(r, parsed, firstBad) ==
  LET genEntry == r.snap[1]
      newTc == MergeTestcase(parsed, genEntry.testcases[r.i], r.tcId, genEntry.requirementId)
  IN IF ~ValidTestcase(newTc)
     THEN Abort(r, "invalid", firstBad, "Regeneration failed")
     ELSE \/ /\ io' = NoIO
             /\ store' = [store EXCEPT ![r.genId].testcases =
                            SavedTestcases(genEntry, r.i, CastTestcase(newTc))]
             /\ last' = Stored(r, firstBad, parsed)
             /\ rq' = IdleRq
             /\ resp' = [NoResp EXCEPT !.status = 200, !.genId = r.genId]
          \/ /\ store[r.genId] # genEntry
             /\ Abort(r, "conflict", firstBad, "Regeneration failed")

\* The first response.  The retry instruction is a const that the code
\* appends the override to: with an override the retry block throws a
\* TypeError before the second call.
TcRegenGen1(g) ==
  /\ rq.pc = "gen1" /\ rq.flow = "tcregen"
  /\ UNCHANGED <<aiReady, nreqs>>
  /\ IF g.threw
     THEN Abort(rq, "threw", FALSE, "Regeneration failed")
     ELSE LET r == [rq EXCEPT !.received = @ + 1]
              parsed == Attempt(Null, CandidateText(g, "envelope"), "object")
          IN IF NotObjectShape(parsed)
             THEN IF HasOverride(rq.override)
                  THEN Abort(r, "raised", TRUE, "Regeneration failed")
                  ELSE /\ rq' = [r EXCEPT !.pc = "gen2", !.parsed = parsed, !.calls = @ + 1,
                                       !.prompt = TcRegenPrompt(r.user, r.snap[1].requirement,
                                                     r.snap[1].selectedStandards,
                                                     "retry instruction")]
                       /\ UNCHANGED <<store, resp, last>> /\ io' = NoIO
             ELSE TcRegenStore(r, parsed, FALSE)

TcRegenGen2(g) ==
  /\ rq.pc = "gen2" /\ rq.flow = "tcregen"
  /\ UNCHANGED <<aiReady, nreqs>>
  /\ IF g.threw
     THEN Abort(rq, "threw", TRUE, "Regeneration failed")
     ELSE LET r == [rq EXCEPT !.received = @ + 1]
              parsed == Attempt(rq.parsed, CandidateText(g, "envelope"), "object")
          IN IF NotObjectShape(parsed)
             THEN /\ store' = StoreOnRecoveryFailure(store)
                  /\ last' = Finished(r, "recovery_failure", TRUE)
                  /\ io' = NoIO
                  /\ rq' = IdleRq
                  /\ resp' = Reply(500, "AI did not return a valid JSON object for the testcase")
             ELSE TcRegenStore(r, parsed, TRUE)

(***************************************************************************)
(* PATCH /testcases/:genId/:tcId: manual update.                           *)
(***************************************************************************)
Body(pairs) == ObjOf([k \in Fields |-> IF k \in DOMAIN pairs THEN pairs[k] ELSE Undef])

PatchBodies ==
  {Body([confidence |-> Str("abc")]),
   Body([confidence |-> Num(15)]),
   Body([confidence |-> Str("0.7abc")]),
   Body([title |-> Str("Edited"), steps |-> Str("one step")]),
   Body([expected |-> Null, automatable |-> Bool(TRUE)]),
   Body([title |-> Arr(<<>>)]),
   Body([suggested_tool |-> Str("cypress"), compliance |-> Arr(<<Str("ISO"), Num(70)>>)])}

\* Array.isArray(x) ? x.map(String) : [String(x)]
PatchArray(v) == IF IsArr(v) THEN Strings(MapString(v.a)) ELSE <<ToStr(v)>>

\* A handler that assigns String(updates.expected) whatever the body holds.
PatchExpectedAlways(tc, updates) == [tc EXCEPT !.expected = ToStr(Prop(updates, "expected"))]

\* The field assignments of the handler on the stored testcase tc.
PatchTestcase(tc, updates) ==
  [tc EXCEPT
     !.title = IF Truthy(Prop(updates, "title")) THEN ToStr(Prop(updates, "title")) ELSE @,
     !.preconditions = IF Truthy(Prop(updates, "preconditions"))
                       THEN PatchArray(Prop(updates, "preconditions")) ELSE @,
     !.steps = IF Truthy(Prop(updates, "steps")) THEN PatchArray(Prop(updates, "steps")) ELSE @,
     !.expected = IF Prop(updates, "expected").ty # "undef"
                  THEN ToStr(Prop(updates, "expected")) ELSE @,
     !.automatable = IF Prop(updates, "automatable").ty = "bool"
                     THEN Prop(updates, "automatable").n = 1 ELSE @,
     !.suggested_tool = IF Truthy(Prop(updates, "suggested_tool"))
                        THEN ToStr(Prop(updates, "suggested_tool")) ELSE @,
     !.confidence = IF Prop(updates, "confidence").ty # "undef"
                       /\ ParseFloat(Prop(updates, "confidence")).fin
                    THEN Clamp01(ParseFloat(Prop(updates, "confidence")).n) ELSE @,
     !.compliance = IF Truthy(Prop(updates, "compliance"))
                    THEN PatchArray(Prop(updates, "compliance")) ELSE @]

\* save() validates the required paths of the patched testcase.
ValidStored(tc) == tc.tc_id # "" /\ tc.req_id # "" /\ tc.title # ""

Patch(user, genId, tcId, updates) ==
  /\ nreqs < MaxRequests
  /\ nreqs' = nreqs + 1
  /\ UNCHANGED <<aiReady, rq, last>>
  /\ io' = IO(1, 0)
  /\ IF FindSet(store, user, genId) = {}
     THEN store' = store /\ resp' = Reply(404, "Generated set not found")
     ELSE LET idx == FindTcIndex(store[genId].testcases, tcId)
          IN IF idx = 0
             THEN store' = store /\ resp' = Reply(404, "Testcase id not found")
             ELSE LET tc == PatchTestcase(store[genId].testcases[idx], updates)
                  IN IF ~ValidStored(tc)
                     THEN store' = store /\ resp' = Reply(500, "Update failed")
                     ELSE /\ store' = [store EXCEPT ![genId].testcases[idx] = tc]
                          /\ resp' = [NoResp EXCEPT !.status = 200, !.genId = genId]

(***************************************************************************)
(* POST /testcases/:genId/:tcId/jira: issue-tracker mirror.  parentOk and  *)
(* subOk say whether the two calls of the issue tracker succeed.  The      *)
(* handler is taken in one step: requests that overlap it are not          *)
(* modelled.                                                               *)
(***************************************************************************)
IssueKeys ==
  <<"PROJ-11", "PROJ-12", "PROJ-13", "PROJ-14", "PROJ-15", "PROJ-16", "PROJ-17", "PROJ-18">>

\* The key the issue tracker gives to the next issue.
NextKey(iss) == IssueKeys[Len(iss) + 1]

\* An issue as the tracker holds it: a parent task of a set, or a subtask
\* of a testcase under the key of its parent.
Issue(kind, genId, tcId, key, parent) ==
  [kind |-> kind, genId |-> genId, tcId |-> tcId, key |-> key, parent |-> parent]

\* A reuse test that never finds a parent.
NoParent(genEntry) == ""

\* let parentKey = genEntry.jiraId || ""
ParentKey(genEntry) == genEntry.jiraId

\* A link that reaches the sets of the requirement of every user.
LinkedAnyUser(st, genEntry, parentKey) ==
  Tuple([k \in 1..Len(st) |->
    IF st[k].requirementId = genEntry.requirementId
    THEN [st[k] EXCEPT !.jiraId = parentKey] ELSE st[k]])

\* GeneratedSet.updateMany({ user, requirementId }, { $set: { jiraId } })
Linked(st, genEntry, parentKey) ==
  Tuple([k \in 1..Len(st) |->
    IF st[k].user = genEntry.user /\ st[k].requirementId = genEntry.requirementId
    THEN [st[k] EXCEPT !.jiraId = parentKey] ELSE st[k]])

Mirror(user, genId, tcId, parentOk, subOk) ==
  /\ nreqs < MaxRequests
  /\ nreqs' = nreqs + 1
  /\ UNCHANGED <<aiReady, jiraReady, rq, last>>
  /\ IF ~jiraReady
     THEN /\ resp' = Reply(400, "Jira credentials/project not configured in env")
          /\ io' = NoIO
          /\ UNCHANGED <<store, issues>>
     ELSE /\ io' = IO(1, 0)
          /\ IF FindSet(store, user, genId) = {}
             THEN /\ resp' = Reply(404, "Generated set not found")
                  /\ UNCHANGED <<store, issues>>
             ELSE LET genEntry == store[genId]
                      missing == ParentKey(genEntry) = ""
                      parentKey == IF missing THEN NextKey(issues) ELSE ParentKey(genEntry)
                      issues1 == IF missing
                                 THEN Append(issues, Issue("parent", genId, "", parentKey, ""))
                                 ELSE issues
                      store1 == IF missing THEN Linked(store, genEntry, parentKey) ELSE store
                      idx == FindTcIndex(genEntry.testcases, tcId)
                  IN IF missing /\ ~parentOk
                     THEN /\ resp' = Reply(500, "Jira creation failed")
                          /\ UNCHANGED <<store, issues>>
                     ELSE IF idx = 0
                     THEN /\ resp' = Reply(404, "Testcase id not found")
                          /\ store' = store1 /\ issues' = issues1
                     ELSE IF ~subOk
                     THEN /\ resp' = Reply(500, "Jira creation failed")
                          /\ store' = store1 /\ issues' = issues1
                     ELSE /\ resp' = [NoResp EXCEPT !.status = 200, !.genId = genId]
                          /\ issues' = Append(issues1,
                                              Issue("subtask", genId, tcId, NextKey(issues1),
                                                    parentKey))
                          /\ store' = [store1 EXCEPT
                                         ![genId].jiraId = parentKey,
                                         ![genId].testcases[idx].jira_id = NextKey(issues1)]

(***************************************************************************)
(* The server: requests arrive and responses of the generation client      *)
(* come back.                                                              *)
(***************************************************************************)
S1 == <<"S1.pdf", "S9.pdf">>
S2 == <<"S2.pdf">>

\* The bodies of POST /testcases the clients send.
BulkCalls ==
  {[user |-> "u1", sel |-> Arr(<<>>), stds |-> StrArr(S1), override |-> Undef],
   [user |-> "u1", sel |-> Undef, stds |-> StrArr(S1), override |-> Undef],
   [user |-> "u1", sel |-> Str("R1"), stds |-> StrArr(S1), override |-> Undef],
   [user |-> "u1", sel |-> StrArr(<<"R1">>), stds |-> Arr(<<>>), override |-> Undef],
   [user |-> "u1", sel |-> StrArr(<<"R1">>), stds |-> Undef, override |-> Undef],
   [user |-> "u1", sel |-> StrArr(<<"R1">>), stds |-> Null, override |-> Undef],
   [user |-> "u1", sel |-> StrArr(<<"R9", "R1">>), stds |-> StrArr(S1), override |-> Undef],
   [user |-> "u1", sel |-> StrArr(<<"R1", "R2">>), stds |-> StrArr(S2),
    override |-> Str("be brief")],
   [user |-> "u2", sel |-> StrArr(<<"R1", "R2">>), stds |-> StrArr(S1), override |-> Str("")]}

\* The calls of POST /requirements/:reqId/regenerate the clients send.
ReqRegenCalls ==
  {[user |-> "u1", reqId |-> "R1", stds |-> Arr(<<>>), override |-> Undef],
   [user |-> "u1", reqId |-> "R1", stds |-> Undef, override |-> Undef],
   [user |-> "u1", reqId |-> "R9", stds |-> Str("S1.pdf"), override |-> Undef],
   [user |-> "u1", reqId |-> "R9", stds |-> StrArr(S1), override |-> Undef],
   [user |-> "u1", reqId |-> "R1", stds |-> StrArr(S2), override |-> Undef],
   [user |-> "u1", reqId |-> "R2", stds |-> StrArr(S1), override |-> Str("be brief")],
   [user |-> "u2", reqId |-> "R1", stds |-> StrArr(S1), override |-> Undef]}

TcIds == {"T1", "T2", "T404"}

\* The calls on one testcase: every target for u1, and u2 asking for T1.
TcTargets(st) ==
  {[user |-> "u1", genId |-> g, tcId |-> t] : g \in 1..(Len(st) + 1), t \in TcIds}
    \cup {[user |-> "u2", genId |-> g, tcId |-> "T1"] : g \in 1..(Len(st) + 1)}

\* The texts a flow is answered with: any text after an array was asked
\* for, and those with a brace after an object was asked for.
ArrayFlowTexts == Texts \ {"titleOnly", "wrongTypes", "truncated", "coerced"}
ObjectFlowTexts ==
  {"titleOnly", "rename", "wrongTypes", "coerced", "prose", "emptyArr", "dup", "empty",
   "truncated"}

Answers(texts) ==
  {[threw |-> TRUE, text |-> "empty"]} \cup {[threw |-> FALSE, text |-> t] : t \in texts}

NoNorm == [done |-> FALSE, raised |-> FALSE, v |-> Undef]

NoExtract == [done |-> FALSE, found |-> FALSE, frag |-> <<>>]

\* The extractor has been given nothing.
ExtractIdle == xa = <<>> /\ xtext = <<>> /\ xres = NoExtract

Init ==
  /\ store = <<>>
  /\ aiReady \in BOOLEAN
  /\ jiraReady = TRUE /\ issues = <<>>
  /\ rq = IdleRq
  /\ resp = NoResp
  /\ last = NoItem
  /\ io = NoIO
  /\ nreqs = 0
  /\ nin = Undef /\ nrid = "R1" /\ nedits = 0 /\ nres = NoNorm /\ nres2 = NoNorm
  /\ ExtractIdle

\* The client receives the response.
Deliver ==
  /\ resp.status # 0
  /\ resp' = NoResp
  /\ last' = NoItem
  /\ io' = NoIO
  /\ UNCHANGED <<store, aiReady, rq, nreqs>>

\* A request is accepted while no response is on its way and the bound on
\* requests is not reached; a generation request waits for the one before.
Accepting == resp.status = 0 /\ nreqs < MaxRequests

Waiting(flow, pc) == rq.flow = flow /\ rq.pc = pc

Next ==
  \/ Accepting /\ rq.pc = "idle" /\ \E c \in BulkCalls :
       BulkStart(c.user, c.sel, c.stds, c.override) /\ UNCHANGED restVars
  \/ Waiting("bulk", "gen1") /\ \E g \in Answers(ArrayFlowTexts), ok \in BOOLEAN :
       BulkGen1(g, ok) /\ UNCHANGED restVars
  \/ Waiting("bulk", "gen2") /\ \E g \in Answers(ArrayFlowTexts), ok \in BOOLEAN :
       BulkGen2(g, ok) /\ UNCHANGED restVars
  \/ Accepting /\ rq.pc = "idle" /\ \E c \in ReqRegenCalls :
       ReqRegenStart(c.user, c.reqId, c.stds, c.override) /\ UNCHANGED restVars
  \/ Waiting("reqregen", "gen1") /\ \E g \in Answers(ArrayFlowTexts), ok \in BOOLEAN :
       ReqRegenGen1(g, ok) /\ UNCHANGED restVars
  \/ Waiting("reqregen", "gen2") /\ \E g \in Answers(ArrayFlowTexts), ok \in BOOLEAN :
       ReqRegenGen2(g, ok) /\ UNCHANGED restVars
  \/ Accepting /\ rq.pc = "idle" /\ \E c \in TcTargets(store), o \in Overrides :
       TcRegenStart(c.user, c.genId, c.tcId, o) /\ UNCHANGED restVars
  \/ Waiting("tcregen", "gen1") /\ \E g \in Answers(ObjectFlowTexts) :
       TcRegenGen1(g) /\ UNCHANGED restVars
  \/ Waiting("tcregen", "gen2") /\ \E g \in Answers(ObjectFlowTexts) :
       TcRegenGen2(g) /\ UNCHANGED restVars
  \/ Accepting /\ \E c \in TcTargets(store), b \in PatchBodies :
       Patch(c.user, c.genId, c.tcId, b) /\ UNCHANGED restVars
  \/ Accepting /\ \E c \in TcTargets(store), parentOk, subOk \in BOOLEAN :
       Mirror(c.user, c.genId, c.tcId, parentOk, subOk) /\ UNCHANGED pureVars
  \/ Deliver /\ UNCHANGED restVars

Spec == Init /\ [][Next]_vars

(***************************************************************************)
(* The server started on a store that already holds a set of u1 for R1     *)
(* which the issue-tracker mirror has linked: the parent issue key is on   *)
(* the set and the subtask key on its testcase.                            *)
(***************************************************************************)
LinkedSet ==
  [user |-> "u1", requirement |-> "R1", requirementId |-> "R1",
   requirementTitle |-> "Login", jiraId |-> "PROJ-1", selectedStandards |-> S2,
   testcases |-> <<[tc_id |-> "T1", req_id |-> "R1", jira_id |-> "PROJ-2",
                    title |-> "Login works", preconditions |-> <<>>,
                    steps |-> <<"open the page">>, expected |-> "ok",
                    automatable |-> TRUE, suggested_tool |-> "selenium",
                    confidence |-> 9, compliance |-> <<>>]>>,
   promptOverride |-> ""]

InitLinked ==
  /\ store = <<LinkedSet>>
  /\ aiReady \in BOOLEAN
  /\ jiraReady = TRUE /\ issues = <<>>
  /\ rq = IdleRq
  /\ resp = NoResp
  /\ last = NoItem
  /\ io = NoIO
  /\ nreqs = 0
  /\ nin = Undef /\ nrid = "R1" /\ nedits = 0 /\ nres = NoNorm /\ nres2 = NoNorm
  /\ ExtractIdle

SpecLinked == InitLinked /\ [][Next]_vars

(***************************************************************************)
(* The mirror and the manual update on a store that holds two sets of u1   *)
(* for R1 and one of u2, none of them linked, with and without the         *)
(* issue-tracker settings.                                                 *)
(***************************************************************************)
PlainTc(id) == [LinkedSet.testcases[1] EXCEPT !.tc_id = id, !.jira_id = ""]

PlainSet(user, tcs) == [LinkedSet EXCEPT !.user = user, !.jiraId = "", !.testcases = tcs]

InitMirror ==
  /\ store = <<PlainSet("u1", <<PlainTc("T1"), PlainTc("T2")>>),
               PlainSet("u1", <<PlainTc("T1")>>),
               PlainSet("u2", <<PlainTc("T1")>>)>>
  /\ aiReady = TRUE
  /\ jiraReady \in BOOLEAN /\ issues = <<>>
  /\ rq = IdleRq
  /\ resp = NoResp
  /\ last = NoItem
  /\ io = NoIO
  /\ nreqs = 0
  /\ nin = Undef /\ nrid = "R1" /\ nedits = 0 /\ nres = NoNorm /\ nres2 = NoNorm
  /\ ExtractIdle

NextMirror ==
  \/ Accepting /\ \E c \in TcTargets(store), parentOk, subOk \in BOOLEAN :
       Mirror(c.user, c.genId, c.tcId, parentOk, subOk) /\ UNCHANGED pureVars
  \/ Accepting /\ \E c \in TcTargets(store), b \in PatchBodies :
       Patch(c.user, c.genId, c.tcId, b) /\ UNCHANGED restVars
  \/ Deliver /\ UNCHANGED restVars

SpecMirror == InitMirror /\ [][NextMirror]_vars

(***************************************************************************)
(* Every route on the store of two users: two sets of u1 for R1, the       *)
(* first with two testcases, and one set of u2 for its own R1.             *)
(***************************************************************************)
InitShared ==
  /\ store = <<PlainSet("u1", <<PlainTc("T1"), PlainTc("T2")>>),
               PlainSet("u1", <<PlainTc("T1")>>),
               PlainSet("u2", <<PlainTc("T1")>>)>>
  /\ aiReady = TRUE
  /\ jiraReady = TRUE /\ issues = <<>>
  /\ rq = IdleRq
  /\ resp = NoResp
  /\ last = NoItem
  /\ io = NoIO
  /\ nreqs = 0
  /\ nin = Undef /\ nrid = "R1" /\ nedits = 0 /\ nres = NoNorm /\ nres2 = NoNorm
  /\ ExtractIdle

\* The calls and the answers on this store: one call of each user for the
\* array flows, and an answer that is recovered, one that is not, and a
\* call of the generation client that throws.
SharedBulkCalls ==
  {c \in BulkCalls : c.user = "u2" \/ (c.sel = StrArr(<<"R1">>) /\ c.stds = Arr(<<>>))}

SharedReqRegenCalls ==
  {c \in ReqRegenCalls : c.reqId = "R1" /\ (c.user = "u2" \/ c.stds = Arr(<<>>))}

SharedArrays == Answers({"good", "prose"})

SharedObjects == Answers({"titleOnly", "prose"})

NextShared ==
  \/ Accepting /\ rq.pc = "idle" /\ \E c \in SharedBulkCalls :
       BulkStart(c.user, c.sel, c.stds, c.override) /\ UNCHANGED restVars
  \/ Waiting("bulk", "gen1") /\ \E g \in SharedArrays, ok \in BOOLEAN :
       BulkGen1(g, ok) /\ UNCHANGED restVars
  \/ Waiting("bulk", "gen2") /\ \E g \in SharedArrays, ok \in BOOLEAN :
       BulkGen2(g, ok) /\ UNCHANGED restVars
  \/ Accepting /\ rq.pc = "idle" /\ \E c \in SharedReqRegenCalls :
       ReqRegenStart(c.user, c.reqId, c.stds, c.override) /\ UNCHANGED restVars
  \/ Waiting("reqregen", "gen1") /\ \E g \in SharedArrays, ok \in BOOLEAN :
       ReqRegenGen1(g, ok) /\ UNCHANGED restVars
  \/ Waiting("reqregen", "gen2") /\ \E g \in SharedArrays, ok \in BOOLEAN :
       ReqRegenGen2(g, ok) /\ UNCHANGED restVars
  \/ Accepting /\ rq.pc = "idle" /\ \E c \in TcTargets(store) :
       TcRegenStart(c.user, c.genId, c.tcId, Undef) /\ UNCHANGED restVars
  \/ Waiting("tcregen", "gen1") /\ \E g \in SharedObjects :
       TcRegenGen1(g) /\ UNCHANGED restVars
  \/ Waiting("tcregen", "gen2") /\ \E g \in SharedObjects :
       TcRegenGen2(g) /\ UNCHANGED restVars
  \/ Accepting /\ \E c \in TcTargets(store), b \in PatchBodies :
       Patch(c.user, c.genId, c.tcId, b) /\ UNCHANGED restVars
  \/ Accepting /\ \E c \in TcTargets(store), parentOk, subOk \in BOOLEAN :
       Mirror(c.user, c.genId, c.tcId, parentOk, subOk) /\ UNCHANGED pureVars
  \/ Deliver /\ UNCHANGED restVars

SpecShared == InitShared /\ [][NextShared]_vars

(***************************************************************************)
(* The normalizer on its own: a value is built from a base by overriding   *)
(* fields, normalized, and the result normalized again.                    *)
(***************************************************************************)
FullObject == Recover(Full("T1"), "object")

\* The kinds of element a parsed array can hold.
NormBases ==
  {ObjOf(NoProps), FullObject, Null, Num(70), Str("T1"), Bool(TRUE), Arr(<<Num(5)>>)}

FieldValues ==
  {Undef, Null, Str(""), Str("T1"), Str("0.7abc"), Str("abc"), Num(70), Num(5), Num(15),
   Num(-20), Num(0), Bool(TRUE), Bool(FALSE), Inf, Arr(<<>>),
   Arr(<<Str("a"), Num(70), Null>>), ObjOf(NoProps)}

InitNorm ==
  /\ store = <<>> /\ aiReady = TRUE /\ jiraReady = TRUE /\ issues = <<>> /\ rq = IdleRq /\ resp = NoResp /\ last = NoItem
  /\ io = NoIO /\ nreqs = 0
  /\ nin \in NormBases
  /\ nrid \in {"R1", "R2"}
  /\ nedits = 0
  /\ nres = NoNorm
  /\ nres2 = NoNorm
  /\ ExtractIdle

NormEdit(k, v) ==
  /\ ~nres.done
  /\ nin.ty = "obj"
  /\ nedits < MaxEdits
  /\ nin' = ObjOf([nin.f EXCEPT ![k] = v])
  /\ nedits' = nedits + 1
  /\ UNCHANGED <<nrid, nres, nres2>>

NormApply(nonce) ==
  /\ ~nres.done
  /\ nres' = [done |-> TRUE] @@ normalizeTestcaseForStore(nin, nrid, nonce)
  /\ UNCHANGED <<nin, nrid, nedits, nres2>>

NormAgain(nonce) ==
  /\ nres.done /\ ~nres.raised /\ ~nres2.done
  /\ nres2' = [done |-> TRUE] @@ normalizeTestcaseForStore(nres.v, nrid, nonce)
  /\ UNCHANGED <<nin, nrid, nedits, nres>>

NextNorm ==
  \/ \E k \in Fields, v \in FieldValues : NormEdit(k, v) /\ UNCHANGED <<flowVars, extractVars>>
  \/ \E nonce \in Nonces : NormApply(nonce) /\ UNCHANGED <<flowVars, extractVars>>
  \/ \E nonce \in Nonces : NormAgain(nonce) /\ UNCHANGED <<flowVars, extractVars>>

SpecNorm == InitNorm /\ [][NextNorm]_vars

(***************************************************************************)
(* The extractor on its own: a JSON array text is built element by         *)
(* element, wrapped in a json fence with prose around it, and extracted.   *)
(***************************************************************************)
\* The elements of an array text: a string, a nested array, an object, a
\* string with balanced brackets in it, and an object that holds an array
\* of such strings.
ArrayElems ==
  {S("a"),
   <<LB, N(10), LB, N(20), RB, RB>>,
   Mini("T1"),
   <<Q, W("Use array "), LB, W("1,2,3"), RB, Q>>,
   <<LC, K("steps"), LB, Q, W("see "), LB, LB, W("x"), RB, RB, Q, RB, RC>>}

\* Prose without bracket characters.
Prose == {<<>>, <<W("Here is the result:")>>, <<W("Thanks!"), W("Bye")>>}

\* prose, a json fence, the array text, a closing fence, prose.
ComposeFence(before, a, after) == before \o <<FenceJson>> \o a \o <<Fence>> \o after

RECURSIVE Flatten(_)
Flatten(elems) == IF elems = <<>> THEN <<>> ELSE Head(elems) \o Flatten(Tail(elems))

\* The JSON array text with these elements.
ArrayText(elems) == <<LB>> \o Flatten(elems) \o <<RB>>

InitExtract ==
  /\ store = <<>> /\ aiReady = TRUE /\ jiraReady = TRUE /\ issues = <<>> /\ rq = IdleRq /\ resp = NoResp /\ last = NoItem
  /\ io = NoIO /\ nreqs = 0
  /\ nin = Undef /\ nrid = "R1" /\ nedits = 0 /\ nres = NoNorm /\ nres2 = NoNorm
  /\ ExtractIdle

ExtractAdd(e) ==
  /\ xtext = <<>>
  /\ Len(xa) < MaxElems
  /\ xa' = Append(xa, e)
  /\ UNCHANGED <<xtext, xres>>

ExtractCompose(before, after) ==
  /\ xtext = <<>>
  /\ xtext' = ComposeFence(before, ArrayText(xa), after)
  /\ UNCHANGED <<xa, xres>>

ExtractApply ==
  /\ xtext # <<>>
  /\ ~xres.done
  /\ xres' = [done |-> TRUE] @@ extractFirstJson(xtext, "array")
  /\ UNCHANGED <<xa, xtext>>

NextExtract ==
  \/ \E e \in ArrayElems : ExtractAdd(e) /\ UNCHANGED <<flowVars, normVars>>
  \/ \E before, after \in Prose : ExtractCompose(before, after) /\ UNCHANGED <<flowVars, normVars>>
  \/ ExtractApply /\ UNCHANGED <<flowVars, normVars>>

SpecExtract == InitExtract /\ [][NextExtract]_vars

(***************************************************************************)
(* The extractor asked for an object: the text is prose, a json fence, a   *)
(* run of objects, a closing fence and prose; the prose may hold a closing *)
(* brace or an array of its own.                                           *)
(***************************************************************************)
ObjectElems ==
  {Mini("T1"),
   <<LC, K("title")>> \o S("x") \o <<K("steps"), LC, K("a"), N(1), RC, RC>>,
   <<LC, K("steps"), LB>> \o S("s") \o <<RB, RC>>}

ObjectProse ==
  {<<>>, <<W("Here is the result:")>>, <<W("oops"), RC>>, <<LB, N(1), RB, W("note"), RC>>}

ObjectCompose(before, after) ==
  /\ xtext = <<>>
  /\ xtext' = before \o <<FenceJson>> \o Flatten(xa) \o <<Fence>> \o after
  /\ UNCHANGED <<xa, xres>>

ObjectApply ==
  /\ xtext # <<>>
  /\ ~xres.done
  /\ xres' = [done |-> TRUE] @@ extractFirstJson(xtext, "object")
  /\ UNCHANGED <<xa, xtext>>

NextObject ==
  \/ \E e \in ObjectElems : ExtractAdd(e) /\ UNCHANGED <<flowVars, normVars>>
  \/ \E before, after \in ObjectProse :
       ObjectCompose(before, after) /\ UNCHANGED <<flowVars, normVars>>
  \/ ObjectApply /\ UNCHANGED <<flowVars, normVars>>

SpecObject == InitExtract /\ [][NextObject]_vars

(***************************************************************************)
(* The server and the normalizer together: a run is either a run of the    *)
(* server (the normalizer is given no value) or a run of the normalizer on *)
(* a value.                                                                *)
(***************************************************************************)
InitAll == Init \/ InitNorm

NextAll ==
  \/ nin = Undef /\ Next
  \/ nin # Undef /\ NextNorm

SpecAll == InitAll /\ [][NextAll]_vars

(***************************************************************************)
(* Properties.                                                             *)
(***************************************************************************)
\* The testcases of every stored set.
StoredTestcases ==
  {store[k].testcases[j] : <<k, j>> \in
     {p \in (1..Len(store)) \X (1..3) : p[2] <= Len(store[p[1]].testcases)}}

\* Whether the value the first attempt left in rq.parsed is null or of the
\* wrong shape for the flow of the request.
FirstAttemptBad(r) ==
  IF r.flow = "tcregen" THEN r.parsed.ty # "obj" ELSE r.parsed.ty # "arr"

\* C1: in each generation flow the generation client is called at most
\* twice per item; the handler waits for a second response only after a
\* first attempt whose recovered value is null or of the wrong shape, and an
\* item that finished after two calls had such a first attempt.
C1_AtMostTwoCalls ==
  /\ rq.calls \in 0..2
  /\ last.calls \in 0..2
  /\ rq.pc = "idle" => rq.calls = 0
  /\ rq.pc = "gen1" => rq.calls = 1
  /\ rq.pc = "gen2" => rq.calls = 2 /\ FirstAttemptBad(rq)
  /\ last.calls = 2 => last.firstBad

\* An item stored from the response of the retry.
C1_Witness == last.calls = 2 /\ last.outcome = "stored"

\* C2: in every flow and for every promptOverride, an item whose first
\* attempt recovered null or a value of the wrong shape is finished only
\* after the one retry call, so after exactly two calls.
C2_RetryAfterBadFirstAttempt == last.firstBad => last.calls = 2

\* One step of a handler from the response of the retry to a recovery
\* failure.
RecoveryFailureStep ==
  rq.pc = "gen2" /\ rq' # rq /\ last'.outcome = "recovery_failure"

\* The failure as the client is told: the result entry of the item in a
\* bulk request, the status of the response otherwise.
ReportedFailed ==
  IF rq.flow = "bulk"
  THEN LET results == IF rq'.pc = "idle" THEN resp'.results ELSE rq'.results
           k == Len(rq.results) + 1
       IN /\ Len(results) >= k
          /\ results[k].req_id = rq.sel[rq.i]
          /\ ~results[k].success
  ELSE resp'.status = 500

\* C3: when the value recovered from the retry is still not of the required
\* shape, the store is left as it was (no set created, no set or testcase
\* modified) and the item or the call is reported as failed.
C3_NothingStoredOnRecoveryFailure ==
  [][RecoveryFailureStep => (store' = store /\ ReportedFailed)]_vars

\* A recovery failure in a server that holds a set.
C3_Witness == last.outcome = "recovery_failure" /\ store # <<>>

\* C4: every response received from the generation client has been
\* followed by an audit write when its item is finished.
C4_AuditPerResponse == last.audits = last.received

\* C5: the testcases of every stored set have pairwise distinct tc_ids.
C5_DistinctTcIds ==
  \A k \in 1..Len(store) :
    \A i, j \in 1..Len(store[k].testcases) :
      store[k].testcases[i].tc_id = store[k].testcases[j].tc_id => i = j

\* C6: the confidence of every stored testcase lies in [0, 1] (0..10 in
\* tenths); the normalizer returns a confidence in [0, 1], and 0 when the
\* confidence it is given does not parse to a finite number.
C6_ConfidenceInRange ==
  /\ \A tc \in StoredTestcases : tc.confidence \in 0..10
  /\ (nres.done /\ ~nres.raised) =>
       /\ nres.v.f["confidence"].ty = "num"
       /\ nres.v.f["confidence"].n \in 0..10
       /\ ~ParseFloat(Prop(nin, "confidence")).fin => nres.v.f["confidence"].n = 0

\* The normalizer was given a confidence above 1 and returned 1.
C6_Witness ==
  /\ nres.done /\ ~nres.raised
  /\ ParseFloat(Prop(nin, "confidence")).fin
  /\ ParseFloat(Prop(nin, "confidence")).n > 10
  /\ nres.v.f["confidence"].n = 10

\* C7: no stored set has zero testcases.
C7_NoEmptySet == \A k \in 1..Len(store) : store[k].testcases # <<>>

\* C8: the tc_id of the record the normalizer returns is a non-empty string.
C8_TcIdNonEmptyString ==
  (nres.done /\ ~nres.raised) =>
    nres.v.f["tc_id"].ty = "str" /\ nres.v.f["tc_id"].s # ""

\* The fields of a testcase record.
RecordFields == Fields \ {"id"}

\* C9: the normalizer never raises: it returns a record for every value it
\* is given.
C9_NeverRaises == nres.done => ~nres.raised

\* C10: normalizing the record the normalizer returned gives the same
\* record, field by field.
C10_Idempotent ==
  nres2.done => (~nres2.raised /\ \A k \in RecordFields : nres2.v.f[k] = nres.v.f[k])

\* C11: from a JSON array text in a json fence with bracket-free prose
\* around it, extractFirstJson(text, "array") returns exactly the array text,
\* also when it holds nested arrays and objects and strings with balanced
\* brackets.
C11_ExtractRoundTrip == xres.done => (xres.found /\ xres.frag = ArrayText(xa))

\* An extraction from an array text that holds a nested array and a string
\* with brackets in it, with prose on both sides.
C11_Witness ==
  /\ xres.done /\ xres.found
  /\ \E i, j \in 1..Len(xa) : xa[i][1].c = "[" /\ xa[j][1].c = "q" /\ Len(xa[j]) > 3
  /\ xtext[1].c = "text" /\ xtext[Len(xtext)].c = "text"

\* The tc_ids of the testcases of a set, in order.
TcIdsOf(set) == [k \in 1..Len(set.testcases) |-> set.testcases[k].tc_id]

\* One step of the single-testcase regenerate handler from a response to
\* the save of the merged testcase.
TcRegenStoredStep ==
  rq.flow = "tcregen" /\ rq.pc \in {"gen1", "gen2"} /\ rq' # rq /\ last'.outcome = "stored"

\* C12: a successful single-testcase regenerate of tcId stores at the
\* target position a testcase whose tc_id is tcId, and the tc_ids of the set
\* are the same sequence before and after.
C12_TargetNotRenamed ==
  [][TcRegenStoredStep =>
       /\ store'[rq.genId].testcases[rq.i].tc_id = rq.tcId
       /\ TcIdsOf(store'[rq.genId]) = TcIdsOf(store[rq.genId])]_vars

\* Testcase T2 regenerated from an answer that names another tc_id: T2 is
\* never created with the tool "selenium", the answer holds it.
C12_Witness ==
  /\ last.flow = "tcregen" /\ last.outcome = "stored" /\ last.key = "T2"
  /\ \E tc \in StoredTestcases : tc.tc_id = "T2" /\ tc.suggested_tool = "selenium"

\* The fields of a testcase that the merge takes from the recovered object.
MergeFields == RecordFields \ {"tc_id"}

\* The type the merge expects of a field of the recovered object.
FieldType(f) ==
  CASE f \in {"preconditions", "steps", "compliance"} -> "arr"
    [] f = "automatable" -> "bool"
    [] f = "confidence" -> "num"
    [] OTHER -> "str"

\* The testcase the handler loaded as the target, and the one it saved.
PriorTc == rq.snap[1].testcases[rq.i]
SavedTc == store'[rq.genId].testcases[rq.i]

\* The recovered objects that the save of this step can come from.
MergedFrom(parsed) ==
  /\ ~NotObjectShape(parsed)
  /\ ValidTestcase(MergeTestcase(parsed, PriorTc, rq.tcId, rq.snap[1].requirementId))
  /\ SavedTc = CastTestcase(MergeTestcase(parsed, PriorTc, rq.tcId, rq.snap[1].requirementId))

\* The answers the object flow can get, the envelope of an empty one included.
ObjectAnswers == ObjectFlowTexts \cup {"envelope"}

\* C13: every field other than tc_id that the recovered object omits has
\* in the saved testcase the value it had in the testcase the handler loaded.
C13_OmittedFieldsKept ==
  [][TcRegenStoredStep =>
       \A t \in ObjectAnswers :
         LET parsed == Attempt(rq.parsed, t, "object")
         IN MergedFrom(parsed) =>
              \A f \in MergeFields :
                Prop(parsed, f).ty = "undef" => SavedTc[f] = PriorTc[f]]_vars

\* C14: every field that the recovered object holds with a value of the
\* wrong type has in the saved testcase the value it had in the testcase the
\* handler loaded.
C14_MistypedFieldsKept ==
  [][TcRegenStoredStep =>
       \A t \in ObjectAnswers :
         LET parsed == Attempt(rq.parsed, t, "object")
         IN MergedFrom(parsed) =>
              \A f \in MergeFields :
                Prop(parsed, f).ty \notin {"undef", FieldType(f)} => SavedTc[f] = PriorTc[f]]_vars

\* One step of the single-testcase regenerate handler that ends the request
\* it started with the set as it is stored now: no other request changed
\* the set in between.
TcRegenEndStep ==
  /\ rq.flow = "tcregen" /\ rq.pc \in {"gen1", "gen2"} /\ rq'.pc = "idle"
  /\ store[rq.genId] = rq.snap[1]

\* A record without its testcases.
Attributes(set) == [f \in DOMAIN set \ {"testcases"} |-> set[f]]

ReqRegenStoredStep ==
  /\ rq.flow = "reqregen" /\ rq.pc \in {"gen1", "gen2"} /\ rq'.pc = "idle"
  /\ last'.outcome = "stored"

\* The sets of the user of the request in flight for its requirement.
SetsOfRequest ==
  {k \in 1..Len(store) : store[k].user = rq.user /\ store[k].requirementId = rq.sel[1]}

\* C16: a successful requirement-level regenerate overwrites the most
\* recently created set of the user for the requirement in place: the
\* returned genId is the id of that set, the number of sets, the jiraId of
\* the set and every other set are unchanged; when the user has no set for
\* the requirement, exactly one set is added and it is the one returned.
C16_OverwritesLatestInPlace ==
  [][ReqRegenStoredStep =>
       IF SetsOfRequest # {}
       THEN LET k == CHOOSE m \in SetsOfRequest : \A j \in SetsOfRequest : j <= m
            IN /\ resp'.genId = k
               /\ Len(store') = Len(store)
               /\ store'[k].jiraId = store[k].jiraId
               /\ store'[k].user = store[k].user
               /\ \A j \in 1..Len(store) : j # k => store'[j] = store[j]
       ELSE /\ Len(store') = Len(store) + 1
            /\ SubSeq(store', 1, Len(store)) = store
            /\ resp'.genId = Len(store) + 1]_vars

\* The linked set was regenerated in place: it holds the new testcases and
\* still carries the key of its parent issue.
C16_Witness ==
  /\ last.flow = "reqregen" /\ last.outcome = "stored" /\ resp.genId = 1
  /\ store[1].jiraId = "PROJ-1" /\ store[1].testcases # LinkedSet.testcases

\* Whether the user owns a requirement with this id.
Owns(user, reqId) == \E d \in RequirementDocs : d.user = user /\ d.reqId = reqId

\* The entries for the ids the user does not own, among the first n ids of
\* the request in flight, are the failure entry of the lookup.
UnknownReported(results, n) ==
  \A j \in 1..n :
    ~Owns(rq.user, rq.sel[j]) => results[j] = FailEntry(rq.sel[j], "requirement not found")

\* A bulk create in flight waits for the generation client only on behalf
\* of an id the user owns, with one entry for each id before it.
BulkInFlightOwned ==
  rq.flow = "bulk" =>
    /\ Owns(rq.user, rq.sel[rq.i])
    /\ Len(rq.results) = rq.i - 1
    /\ UnknownReported(rq.results, rq.i - 1)

\* C17: in a bulk create an id the user does not own gets the entry
\* "requirement not found", no generation call is issued and no set is
\* stored for it, and the loop goes on: the ids after it are reached, and
\* the result list sent has an entry for every id.
C17_UnknownRequirementSkipped ==
  [][/\ BulkInFlightOwned'
     /\ \A k \in 1..Len(store') : Owns(store'[k].user, store'[k].requirementId)
     /\ (rq.flow = "bulk" /\ rq'.flow = "none" /\ resp'.status = 200) =>
           /\ Len(resp'.results) = Len(rq.sel)
           /\ UnknownReported(resp'.results, Len(rq.sel))]_vars

\* The loop passed an unknown first id, stored nothing, and waits for the
\* generation of the second id.
C17_Witness ==
  /\ rq.flow = "bulk" /\ rq.pc = "gen1" /\ rq.i = 2 /\ rq.sel[1] = "R9"
  /\ rq.results = <<FailEntry("R9", "requirement not found")>>
  /\ store = <<>>

\* C18: whatever text the generation client returns for one requirement
\* of a bulk create, the batch goes on: the request ends with the 200
\* result list, one entry for each selected requirement in request order,
\* the sets stored for the earlier requirements among them.
C18_BatchNotAborted ==
  [][(/\ rq.flow = "bulk" /\ rq.pc \in {"gen1", "gen2"} /\ rq'.flow = "none"
      /\ last'.outcome # "threw") =>
        /\ resp'.status = 200
        /\ Len(resp'.results) = Len(rq.sel)
        /\ \A j \in 1..Len(rq.sel) : resp'.results[j].req_id = rq.sel[j]
        /\ \A j \in 1..Len(rq.results) : resp'.results[j] = rq.results[j]]_vars

\* Whether a property of the request body is missing, not an array or
\* empty.
Unusable(v) == v.ty # "arr" \/ v.a = <<>>

\* A step that accepts nothing: no handler local, store entry or item
\* record changes and no store query or document fetch is issued.
RejectedWith400 ==
  /\ resp'.status = 400
  /\ io' = NoIO
  /\ rq' = rq /\ store' = store /\ last' = last

\* C19: a bulk create whose selectedRequirements or selectedStandards is
\* missing, not an array or empty, and a requirement-level regenerate
\* whose selectedStandards is, are answered 400 before any store query,
\* document fetch, generation call, audit write or store write.
C19_BadListsRejected ==
  [][/\ \A c \in BulkCalls :
          (/\ Unusable(c.sel) \/ Unusable(c.stds)
           /\ BulkStart(c.user, c.sel, c.stds, c.override))
            => RejectedWith400
     /\ \A c \in ReqRegenCalls :
          (Unusable(c.stds) /\ ReqRegenStart(c.user, c.reqId, c.stds, c.override))
            => RejectedWith400]_vars

\* A request was answered 400 by a server that has stored nothing and has
\* no generation in flight.
C19_Witness ==
  /\ resp.status = 400 /\ resp.error = "selectedStandards must be provided"
  /\ io = NoIO /\ rq = IdleRq /\ store = <<>> /\ nreqs = 1

\* Whether the user has a standard of this name.
HasStandard(user, name) == \E d \in StandardDocs : d.user = user /\ d.filename = name

\* C20: a selected standard that the user does not have is reported as not
\* found, so a bulk create or a requirement-level regenerate never waits
\* for the generation client on behalf of a request that names one.
C20_UnknownStandardReported ==
  (rq.flow \in {"bulk", "reqregen"} /\ rq.pc \in {"gen1", "gen2"}) =>
    \A k \in 1..Len(rq.stds) : HasStandard(rq.user, rq.stds[k])

\* The fields of a stored testcase that the patch handler never assigns.
PatchFrozen == {"tc_id", "req_id", "jira_id"}

\* What a patch step with this target and body leaves as it was, and what
\* it stores for a confidence.
PatchFrame(c, b) ==
  /\ rq' = rq /\ last' = last
  /\ Len(store') = Len(store)
  /\ \A k \in 1..Len(store) :
       /\ Attributes(store'[k]) = Attributes(store[k])
       /\ Len(store'[k].testcases) = Len(store[k].testcases)
       /\ \A j \in 1..Len(store[k].testcases) :
            LET old == store[k].testcases[j]
                new == store'[k].testcases[j]
                conf == ParseFloat(Prop(b, "confidence"))
                first == \A m \in 1..(j - 1) : store[k].testcases[m].tc_id # c.tcId
            IN IF k # c.genId \/ old.tc_id # c.tcId \/ ~first
               THEN new = old
               ELSE /\ \A f \in PatchFrozen : new[f] = old[f]
                    /\ \A f \in RecordFields : Prop(b, f).ty = "undef" => new[f] = old[f]
                    /\ ~conf.fin => new.confidence = old.confidence
                    /\ (conf.fin /\ resp'.status = 200) =>
                         /\ new.confidence \in 0..10
                         /\ conf.n \in 0..10 => new.confidence = conf.n
                         /\ conf.n > 10 => new.confidence = 10
                         /\ conf.n < 0 => new.confidence = 0

ArrayStoredStep ==
  /\ rq.flow \in {"bulk", "reqregen"} /\ rq.pc \in {"gen1", "gen2"}
  /\ last'.outcome = "stored" /\ last' # last

\* The testcases of the set that such a step has written.
WrittenTestcases ==
  IF rq.flow = "bulk" THEN store'[Len(store')].testcases
  ELSE store'[resp'.genId].testcases

\* The written testcases are, position by position, the stored form of the
\* normalization of the elements of the recovered array.
InArrayOrder(parsed) ==
  /\ parsed.ty = "arr"
  /\ Len(WrittenTestcases) = Len(parsed.a)
  /\ \A k \in 1..Len(parsed.a) :
       \E nonce \in Nonces :
         LET n == normalizeTestcaseForStore(parsed.a[k], rq.sel[rq.i], nonce)
         IN ~n.raised /\ WrittenTestcases[k] = CastTestcase(n.v)

\* C22: the set that bulk create or requirement-level regenerate stores
\* holds one testcase for each element of the recovered array, the k-th
\* being the normalization of the k-th element: nothing is reordered,
\* dropped, duplicated or merged.
C22_StoredInArrayOrder == [][ArrayStoredStep => InArrayOrder(last'.recovered)]_vars

\* A set of two different testcases was stored in the order of the answer.
C22_Witness ==
  /\ last.flow \in {"bulk", "reqregen"} /\ last.outcome = "stored"
  /\ \E k \in 1..Len(store) :
       /\ Len(store[k].testcases) = 2
       /\ store[k].testcases[1].tc_id = "T1" /\ store[k].testcases[2].tc_id = "T2"

\* C23: the last block of the prompt of every first attempt is the text
\* directive that restates the required output shape (in the
\* single-testcase regenerate, the one text block of the prompt): no media
\* reference or other block follows it.
C23_DirectiveLast ==
  rq.pc = "gen1" =>
    LET final == rq.prompt[Len(rq.prompt)]
    IN /\ final.kind = "text"
       /\ rq.flow \in {"bulk", "reqregen"} => final.what = "directive"

\* The parent issues created on behalf of a set.
ParentsOf(g) == {n \in 1..Len(issues) : issues[n].kind = "parent" /\ issues[n].genId = g}

\* C24: over mirror requests that do not overlap, whatever the calls of
\* the issue tracker answer, at most one parent issue is created for a
\* set; its key is on the set from the request that created it, also when
\* the subtask call of that request failed, and every subtask created for
\* the set afterwards is under that key.
C24_ParentCreatedOnce ==
  \A n \in 1..Len(issues) :
    LET g == issues[n].genId
    IN /\ Cardinality(ParentsOf(g)) <= 1
       /\ issues[n].kind = "parent" => store[g].jiraId = issues[n].key
       /\ issues[n].kind = "subtask" => issues[n].parent = store[g].jiraId

\* The first request created the parent of set 1 and its subtask call
\* failed; the second request created the subtask under the same parent.
C24_Witness ==
  /\ nreqs = 2 /\ Len(issues) = 2
  /\ issues[1].kind = "parent" /\ issues[1].genId = 1
  /\ issues[2].kind = "subtask" /\ issues[2].genId = 1 /\ issues[2].parent = issues[1].key
  /\ store[1].jiraId = issues[1].key

\* Whether a response reports a missing generation client or missing
\* issue-tracker settings, for the request or for one of its items.
ConfigError(r) ==
  \/ r.error \in {"AI client not initialized",
                  "Jira credentials/project not configured in env"}
  \/ \E j \in 1..Len(r.results) : r.results[j].error = "AI client not initialized"

\* C25: a request that is answered with a configuration error has issued
\* no store query, no document fetch and no issue-tracker call.
C25_ConfigErrorsFirst ==
  [][(resp.status = 0 /\ resp'.status # 0 /\ ConfigError(resp')) =>
       (io' = NoIO /\ issues' = issues)]_vars

\* The answers to an array-shaped flow whose text, without fences, opens
\* with a brace: the top-level JSON value is an object.
TopLevelObjects ==
  {t \in ArrayFlowTexts : Strip(TextOf(t)) # <<>> /\ Head(Strip(TextOf(t))) = LC}

\* C26: in bulk create and requirement-level regenerate an answer whose
\* top-level value is an object is a shape mismatch: the first attempt
\* goes to the retry, the retry ends in a recovery failure, and no array
\* inside the object is stored.
C26_ObjectIsShapeMismatch ==
  [][\A t \in TopLevelObjects, ok \in BOOLEAN :
       LET g == [threw |-> FALSE, text |-> t]
       IN /\ (BulkGen1(g, ok) \/ ReqRegenGen1(g, ok)) => (rq'.pc = "gen2" /\ store' = store)
          /\ (BulkGen2(g, ok) \/ ReqRegenGen2(g, ok)) =>
               (last'.outcome = "recovery_failure" /\ store' = store)]_vars

\* Every non-empty jira_id of the store after the step was there before it,
\* on the same testcase.
NoNewJiraId ==
  \A k \in 1..Len(store') :
    \A j \in 1..Len(store'[k].testcases) :
      store'[k].testcases[j].jira_id # "" =>
        /\ k <= Len(store) /\ j <= Len(store[k].testcases)
        /\ store[k].testcases[j].jira_id = store'[k].testcases[j].jira_id

\* C27: the testcases that bulk create and requirement-level regenerate
\* store have an empty jira_id whatever the answer holds, and a step gives
\* a testcase a jira_id only when it creates an issue for it.
C27_JiraIdOnlyByMirror ==
  [][/\ ArrayStoredStep => \A k \in 1..Len(WrittenTestcases) : WrittenTestcases[k].jira_id = ""
     /\ issues' = issues => NoNewJiraId]_vars

\* The file URIs of the requirements and the standards of a user.
UrisOf(user) ==
  {d.fileUri : d \in {e \in RequirementDocs : e.user = user}}
    \cup {d.fileUri : d \in {e \in StandardDocs : e.user = user}}

\* The step has worked for this user alone: the sets of the other users
\* are what they were, a set it has added belongs to the user, and the set
\* the response it has sent names, or an entry of it, belongs to the user.
ScopedTo(user) ==
  /\ Len(store') >= Len(store)
  /\ \A k \in 1..Len(store) : store[k].user # user => store'[k] = store[k]
  /\ \A k \in (Len(store) + 1)..Len(store') : store'[k].user = user
  /\ resp' # resp =>
       /\ resp'.genId # 0 => store'[resp'.genId].user = user
       /\ \A j \in 1..Len(resp'.results) :
            resp'.results[j].genId # 0 => store'[resp'.results[j].genId].user = user

\* The prompt of the request in flight refers to documents of the user only.
OwnPrompt(user) ==
  \A j \in 1..Len(rq'.prompt) :
    rq'.prompt[j].kind = "media" => rq'.prompt[j].what \in UrisOf(user)

Balance(cleaned, a, b) ==
  Cardinality({k \in a..b : cleaned[k].c = "{"})
    - Cardinality({k \in a..b : cleaned[k].c = "}"})

\* The fragment from the first opening brace of the text through the
\* closing brace that matches it, when the text has both.
FirstBalanced(cleaned) ==
  LET opens == {k \in 1..Len(cleaned) : cleaned[k].c = "{"}
      first == CHOOSE k \in opens : \A j \in opens : k <= j
      ends == {j \in first..Len(cleaned) : Balance(cleaned, first, j) = 0}
  IN IF opens = {} THEN NotFound
     ELSE IF ends = {} THEN NotFound
     ELSE [found |-> TRUE,
           frag |-> SubSeq(cleaned, first, CHOOSE j \in ends : \A m \in ends : j <= m)]

\* C29: asked for an object, the extractor returns the fragment from the
\* first opening brace of the text without fences through its matching
\* closing brace whenever the text has one, also when a closing brace
\* stands in the prose before it.
C29_FirstObjectReturned ==
  (xres.done /\ FirstBalanced(Strip(xtext)).found) =>
    (xres.found /\ xres.frag = FirstBalanced(Strip(xtext)).frag)

\* A single-testcase regenerate stores its result.
TcRegenSaves ==
  rq.flow = "tcregen" /\ rq.pc \in {"gen1", "gen2"} /\ last'.outcome = "stored" /\ last' # last

\* C30: when a single-testcase regenerate saves, every other testcase of
\* the set is what the store held just before the save, so a manual update
\* of another testcase that was saved while the regenerate was waiting for
\* the generation client is still there.
C30_NoLostUpdate ==
  [][TcRegenSaves =>
       \A j \in 1..Len(store[rq.genId].testcases) :
         j # rq.i => /\ j <= Len(store'[rq.genId].testcases)
                     /\ store'[rq.genId].testcases[j] = store[rq.genId].testcases[j]]_vars

====
